---- MODULE Spec2Model ----
(***************************************************************************)
(* yfinance-go: the authenticated session manager (YfData), its retry loop *)
(* (makeRequest), the credential cache file and the multi-symbol Download  *)
(* orchestrator, as a state machine.                                       *)
(*                                                                         *)
(* Strings whose content the code inspects are sequences of atoms: a       *)
(* ticker string is a sequence of characters; a crumb (the raw body of the *)
(* getcrumb endpoint) is a sequence of fragments, where the fragments the  *)
(* code searches for ("<html>", "Too Many Requests", ...) are atoms.       *)
(* Errors are named by strings, "nil" being Go's nil error.                *)
(***************************************************************************)
EXTENDS Integers, Sequences, FiniteSets, TLC

\* ------------------------------------------------------------- bounds
NumWorkers == 2      \* goroutines that may use one session concurrently
MaxRetries == 1      \* largest retry count set with SetRetries
MaxStrLen == 2       \* longest entry of DownloadOptions.Tickers
MaxTickers == 3      \* longest DownloadOptions.Tickers
MaxNow == 4          \* last clock reading, in ticks of TickHours
AcqCap == 2          \* the acquisitions of a batch are counted up to this

\* ------------------------------------------------- program constants
DefaultRetries == 3
CacheHours == 24
TickHours == 12

Workers == 1..NumWorkers
NoOne == 0

Range(s) == {s[i] : i \in 1..Len(s)}

RECURSIVE SeqsUpTo(_, _)
SeqsUpTo(S, n) ==
    IF n = 0 THEN {<< >>}
    ELSE LET shorter == SeqsUpTo(S, n - 1)
         IN  shorter \cup {Append(s, x) : s \in {t \in shorter : Len(t) = n - 1}, x \in S}

\* ------------------------------------------------ crumbs and cookies
Html == "<html>"
Doctype == "<!DOCTYPE"
TooMany == "Too Many Requests"
Yahoo == "Yahoo"
BadByte == "0xFF"         \* a byte that is not valid UTF-8
Replacement == "U+FFFD"   \* the Unicode replacement rune

Contains(s, atom) == \E i \in 1..Len(s) : s[i] = atom

\* Bodies the getcrumb endpoints may answer with.
CrumbBodies ==
    { << >>, <<"x">>, <<BadByte>>, <<Html>>, <<"x", Html>>, <<TooMany>>,
      <<Doctype>>, <<Yahoo>> }

isValidCrumb_NoHtmlCheck(c) ==
    IF c = << >> THEN FALSE
    ELSE IF Contains(c, Doctype) \/ Contains(c, TooMany) \/ Contains(c, Yahoo)
         THEN FALSE
         ELSE TRUE

isValidCrumb(c) ==
    IF c = << >> THEN FALSE
    ELSE IF Contains(c, Html) \/ Contains(c, Doctype)
            \/ Contains(c, TooMany) \/ Contains(c, Yahoo)
         THEN FALSE
         ELSE TRUE

\* The check getCrumbBasicInternal and getCrumbCSRFInternal make on the body.
CrumbBodyRejected(c) == c = << >> \/ Contains(c, Html) \/ Contains(c, TooMany)

\* encoding/json on a Go string: Marshal escapes '<' and '>' and replaces
\* bytes that are not valid UTF-8 by U+FFFD; Unmarshal undoes the escapes.
jsonEscapeAtom(a) ==
    CASE a = Html -> "\\u003chtml\\u003e"
      [] a = Doctype -> "\\u003c!DOCTYPE"
      [] a = BadByte -> Replacement
      [] OTHER -> a

jsonUnescapeAtom(a) ==
    CASE a = "\\u003chtml\\u003e" -> Html
      [] a = "\\u003c!DOCTYPE" -> Doctype
      [] OTHER -> a

jsonMarshalString(s) == [i \in 1..Len(s) |-> jsonEscapeAtom(s[i])]
jsonUnmarshalString(s) == [i \in 1..Len(s) |-> jsonUnescapeAtom(s[i])]

NoCookie == << >>
A3Value == <<"a3">>
CsrfObtained == <<"csrf-obtained">>

\* The cache file: absent, or a file that os.ReadFile can or cannot read and
\* whose text json.Unmarshal can or cannot decode into a CookieCache record.
NoFile == [present |-> FALSE, readable |-> FALSE, parses |-> FALSE,
           cookie |-> << >>, crumb |-> << >>, expiry |-> 0, strategy |-> ""]

NothingSaved == [set |-> FALSE, cookie |-> << >>, crumb |-> << >>, strategy |-> "",
                 at |-> 0]

\* ------------------------------------------------------------- state
VARIABLES
    Retries,         \* GlobalConfig.Retries
    Proxy,           \* GlobalConfig.Proxy
    Timeout,         \* GlobalConfig.Timeout, in seconds
    environ,         \* the proxy variables of the process environment
    ctxDone,         \* the context passed to the calls is cancelled
    now,             \* time.Now(), in hours
    crumb, cookie, cookieStrategy,   \* YfData fields
    mu,              \* YfData.mu: the worker holding it, or NoOne
    jar,             \* the A3 cookie the client's jar holds for yahoo.com
    cacheDir,        \* YfData.cacheDir is not ""
    client,          \* YfData.client: its Timeout and its transport's proxy
    userAgent,       \* YfData.userAgent
    cacheFile,       \* cookie_cache.json
    saved,           \* what the latest saveCookieCache of this run was given
    pc,              \* each worker's position
    task,            \* what the worker's GetRawJSON is called for
    attempt, retries, lastErr,       \* makeRequest's locals
    reqCrumb,        \* the crumb doRequest appends to the URL
    resp, err,       \* what makeRequest returned
    out,             \* what GetRawJSON returned
    seen,            \* per request: what was dispatched and answered
    dl,              \* Download's position
    tickers,         \* Download's normalized ticker list
    wanted,          \* the symbols named by options.Tickers
    tickerChan,      \* the buffered, closed channel of tickers
    workers,         \* the number of goroutines Download started
    wg,              \* the WaitGroup counter
    ticker,          \* the ticker each worker is fetching
    result,          \* the DownloadResult
    pending,         \* symbols whose fetch had not returned at cancellation
    batch,           \* what the running Download was given and has done
    api,             \* the caller's latest call of the ticker API and its result
    net              \* the transport: the answers the servers may give

cfgVars == <<Retries, ctxDone, now, net, Proxy, Timeout, environ>>
ydVars == <<crumb, cookie, cookieStrategy, mu, jar, cacheDir, client, userAgent, cacheFile,
           saved>>
reqVars == <<pc, task, attempt, retries, lastErr, reqCrumb, resp, err, out, seen>>
dlVars == <<dl, tickers, wanted, tickerChan, workers, wg, ticker, result, pending>>
vars == <<cfgVars, ydVars, reqVars, dlVars, batch, api>>


\* --------------------------------------------------------- the cache
CookieCacheRecord(ck, cr, strat, exp) ==
    [present |-> TRUE, readable |-> TRUE, parses |-> TRUE, cookie |-> jsonMarshalString(ck),
     crumb |-> jsonMarshalString(cr), expiry |-> exp, strategy |-> strat]

\* loadCookieCache without its test of the expiry.
loadCookieCache_NoExpiryCheck(dir, file, t, ck, cr, strat) ==
    IF ~dir \/ ~file.present \/ ~file.readable \/ ~file.parses
    THEN [hit |-> FALSE, cookie |-> ck, crumb |-> cr, strategy |-> strat]
    ELSE IF ~isValidCrumb(jsonUnmarshalString(file.crumb))
    THEN [hit |-> FALSE, cookie |-> ck, crumb |-> cr, strategy |-> strat]
    ELSE [hit |-> TRUE, cookie |-> jsonUnmarshalString(file.cookie),
          crumb |-> jsonUnmarshalString(file.crumb), strategy |-> file.strategy]

\* loadCookieCache without its test of the crumb.
loadCookieCache_NoCrumbCheck(dir, file, t, ck, cr, strat) ==
    IF ~dir \/ ~file.present \/ ~file.readable \/ ~file.parses \/ t > file.expiry
    THEN [hit |-> FALSE, cookie |-> ck, crumb |-> cr, strategy |-> strat]
    ELSE [hit |-> TRUE, cookie |-> jsonUnmarshalString(file.cookie),
          crumb |-> jsonUnmarshalString(file.crumb), strategy |-> file.strategy]

\* loadCookieCache: what the session's cookie, crumb and strategy become.
loadCookieCache(dir, file, t, ck, cr, strat) ==
    IF ~dir \/ ~file.present \/ ~file.readable
    THEN [hit |-> FALSE, cookie |-> ck, crumb |-> cr, strategy |-> strat]
    ELSE IF ~file.parses
    THEN [hit |-> FALSE, cookie |-> ck, crumb |-> cr, strategy |-> strat]
    ELSE IF t > file.expiry
    THEN [hit |-> FALSE, cookie |-> ck, crumb |-> cr, strategy |-> strat]
    ELSE IF ~isValidCrumb(jsonUnmarshalString(file.crumb))
    THEN [hit |-> FALSE, cookie |-> ck, crumb |-> cr, strategy |-> strat]
    ELSE [hit |-> TRUE, cookie |-> jsonUnmarshalString(file.cookie),
          crumb |-> jsonUnmarshalString(file.crumb), strategy |-> file.strategy]

\* saveCookieCache: the file after the call.
saveCookieCache(dir, file, t, ck, cr, strat) ==
    IF ~dir THEN file ELSE CookieCacheRecord(ck, cr, strat, t + CacheHours)

\* ------------------------------------------------- requests, responses
NilResp == [status |-> 0, consent |-> FALSE, body |-> "nil"]

Bodies == {"chart", "chartError", "down", "malformed"}

\* What client.Do may return for an API request, besides a transport error.
Responses ==
    {[status |-> 200, consent |-> FALSE, body |-> b] : b \in Bodies}
    \cup {[status |-> s, consent |-> FALSE, body |-> "malformed"] : s \in {401, 403, 429, 500}}
    \cup {[status |-> s, consent |-> TRUE, body |-> "malformed"] : s \in {200, 429}}
    \cup {[status |-> 500, consent |-> FALSE, body |-> "down"]}

ErrTransport == "transport error"
ErrRateLimit == "YFRateLimitError"
ErrAuth == "authentication failed"
ErrHTTP == "HTTP error"
ErrRead == "body read error"
ErrDown == "YFDataException"
ErrParse == "failed to parse JSON"
ErrChart == "chart error"
Panic == "panic: nil pointer dereference"

\* disp: calls of doRequest; s429, consent: answers with status 429, from a
\* consent host; last: the status of the latest answer (0: a transport error);
\* switches: calls of switchCookieStrategy; asleep: the request was in its
\* backoff sleep when ctx was cancelled; late: it called doRequest after that.
NoneSeen == [disp |-> 0, s429 |-> 0, consent |-> 0, last |-> 0, switches |-> 0,
             asleep |-> FALSE, late |-> FALSE]

Bump(w, field) == [seen EXCEPT ![w][field] = @ + 1]

EffectiveRetries(n) == IF n = 0 THEN DefaultRetries ELSE n

\* GetRawJSON returns o to its caller: a direct caller, GetTimezone, or History.
Finish(w, o) ==
    /\ out' = [out EXCEPT ![w] = o]
    /\ IF task[w] = "tz"
       THEN /\ task' = [task EXCEPT ![w] = "chart"]
            /\ pc' = [pc EXCEPT ![w] = "makeRequest"]
       ELSE /\ task' = task
            /\ pc' = [pc EXCEPT ![w] = IF task[w] = "chart" THEN "record" ELSE "idle"]

\* makeRequest returns (r, e) to GetRawJSON, which runs up to its body read.
ReturnFrom(w, r, e) ==
    /\ resp' = [resp EXCEPT ![w] = r]
    /\ err' = [err EXCEPT ![w] = e]
    /\ IF e # "nil" THEN Finish(w, e)
       ELSE IF r = NilResp
       THEN /\ pc' = [pc EXCEPT ![w] = "panic"]
            /\ out' = [out EXCEPT ![w] = Panic]
            /\ task' = task
       ELSE IF r.status >= 400 THEN Finish(w, ErrHTTP)
       ELSE /\ pc' = [pc EXCEPT ![w] = "readBody"]
            /\ UNCHANGED <<out, task>>

\* `continue` in makeRequest's loop: attempt++, then the loop condition.
Continue(w, le) ==
    IF attempt[w] + 1 <= retries[w]
    THEN /\ attempt' = [attempt EXCEPT ![w] = @ + 1]
         /\ pc' = [pc EXCEPT ![w] = "doRequest"]
         /\ UNCHANGED <<resp, err, out, task>>
    ELSE /\ attempt' = [attempt EXCEPT ![w] = @ + 1]
         /\ ReturnFrom(w, NilResp, le)

\* The process is alive: a panic in any goroutine ends it.
Alive == \A w \in Workers : pc[w] # "panic"


\* ------------------------------------------------------ configuration
RetriesValues == -1..MaxRetries

\* Proxy addresses; "" is no proxy.
NoProxy == ""
ProxyValues == {NoProxy, "http://proxy:8080"}

\* The proxy variables GetProxy reads, and what a process may find in them.
EnvNames == {"YFINANCE_PROXY", "HTTPS_PROXY", "HTTP_PROXY"}
NoEnviron == [v \in EnvNames |-> NoProxy]
Environs == [EnvNames -> {NoProxy, "http://env:3128"}]

\* Timeouts in seconds: the one GlobalConfig starts with, the one NewYfData
\* gives the client, and another one a caller may set.
DefaultTimeout == 30
ClientTimeout == 30
OtherTimeout == 60
TimeoutValues == {0, DefaultTimeout, OtherTimeout}

\* Config.SetRetries
SetRetries(n) ==
    /\ Alive
    /\ n # Retries
    /\ Retries' = n
    /\ UNCHANGED <<ctxDone, now, net, Proxy, Timeout, environ, ydVars, reqVars, dlVars, batch, api>>

\* Config.SetProxy
SetProxy(p) ==
    /\ Alive
    /\ p # Proxy
    /\ Proxy' = p
    /\ UNCHANGED <<Retries, ctxDone, now, net, Timeout, environ, ydVars, reqVars, dlVars, batch, api>>

\* Config.SetTimeout
SetTimeout(t) ==
    /\ Alive
    /\ t # Timeout
    /\ Timeout' = t
    /\ UNCHANGED <<Retries, ctxDone, now, net, Proxy, environ, ydVars, reqVars, dlVars, batch, api>>

\* SetConfig: each setter is called only for a value that is given.
SetConfig(p, n, t) ==
    /\ Alive
    /\ Proxy' = IF p # NoProxy THEN p ELSE Proxy
    /\ Retries' = IF n >= 0 THEN n ELSE Retries
    /\ Timeout' = IF t > 0 THEN t ELSE Timeout
    /\ <<Proxy', Retries', Timeout'>> # <<Proxy, Retries, Timeout>>
    /\ UNCHANGED <<ctxDone, now, net, environ, ydVars, reqVars, dlVars, batch, api>>

\* os.Getenv
Getenv(env, name) == env[name]

\* Config.GetProxy: the environment variables are looked at first, the
\* configured proxy last.
GetProxy(env, p) ==
    IF Getenv(env, "YFINANCE_PROXY") # NoProxy THEN Getenv(env, "YFINANCE_PROXY")
    ELSE IF Getenv(env, "HTTPS_PROXY") # NoProxy THEN Getenv(env, "HTTPS_PROXY")
    ELSE IF Getenv(env, "HTTP_PROXY") # NoProxy THEN Getenv(env, "HTTP_PROXY")
    ELSE p

\* Config.GetTimeout
GetTimeout == Timeout

\* NewYfData builds the client once: its Timeout is written in the code and
\* its transport keeps the proxy GetProxy returned at that moment.
NewClient(env, p) == [Timeout |-> ClientTimeout, proxy |-> GetProxy(env, p)]

\* GlobalConfig as the package declares it, in a process started without
\* proxy variables.
InitConfig ==
    /\ Proxy = NoProxy
    /\ Timeout = DefaultTimeout
    /\ environ = NoEnviron

\* ----------------------------------------------------------- requests
\* A caller outside Download calls GetRawJSON.
GetRawJSON(w) ==
    /\ Alive
    /\ pc[w] = "idle"
    /\ pc' = [pc EXCEPT ![w] = "makeRequest"]
    /\ task' = [task EXCEPT ![w] = "direct"]
    /\ resp' = [resp EXCEPT ![w] = NilResp]
    /\ err' = [err EXCEPT ![w] = "nil"]
    /\ out' = [out EXCEPT ![w] = "none"]
    /\ UNCHANGED <<attempt, retries, lastErr, reqCrumb, seen>>
    /\ UNCHANGED <<cfgVars, ydVars, dlVars, batch, api>>

\* makeRequest up to the first pass through the loop condition.
makeRequest(w) ==
    /\ Alive
    /\ pc[w] = "makeRequest"
    /\ LET r == EffectiveRetries(Retries)
       IN  /\ retries' = [retries EXCEPT ![w] = r]
           /\ attempt' = [attempt EXCEPT ![w] = 0]
           /\ lastErr' = [lastErr EXCEPT ![w] = "nil"]
           /\ seen' = [seen EXCEPT ![w] = NoneSeen]
           /\ IF 0 <= r
              THEN /\ pc' = [pc EXCEPT ![w] = "doRequest"]
                   /\ UNCHANGED <<resp, err, out, task>>
              ELSE ReturnFrom(w, NilResp, "nil")
    /\ UNCHANGED <<reqCrumb, cfgVars, ydVars, dlVars, batch, api>>

AcqPcs ==
    {"basicCookie", "basicCrumb", "csrfCookie", "csrfCrumb",
     "basicCookieFb", "basicCrumbFb", "csrfCookieFb", "csrfCrumbFb"}

Step(name, fb) == IF fb THEN name \o "Fb" ELSE name

MuFree_Unguarded(w) == TRUE

\* yd.mu.Lock() returns for w.
MuFree(w) == mu = NoOne

CrumbCached_Never == FALSE

\* The session holds a crumb: getCookieAndCrumb returns it at once.
CrumbCached == crumb # << >>

\* doRequest calls getCookieAndCrumb: the cached crumb, or the first
\* acquisition strategy is entered with the lock held.
getCookieAndCrumb(w) ==
    /\ Alive
    /\ pc[w] = "doRequest"
    /\ MuFree(w)
    /\ seen' = [seen EXCEPT ![w].disp = @ + 1, ![w].late = @ \/ seen[w].asleep]
    /\ IF CrumbCached
       THEN /\ reqCrumb' = [reqCrumb EXCEPT ![w] = crumb]
            /\ pc' = [pc EXCEPT ![w] = "headers"]
            /\ mu' = mu
       ELSE /\ mu' = w
            /\ pc' = [pc EXCEPT ![w] =
                        IF cookieStrategy = "csrf" THEN "csrfCookie" ELSE "basicCookie"]
            /\ reqCrumb' = reqCrumb
    /\ batch' = IF ~CrumbCached /\ dl = "running" /\ batch.acquired < AcqCap
                THEN [batch EXCEPT !.acquired = @ + 1]
                ELSE batch
    /\ api' = api
    /\ UNCHANGED <<task, attempt, retries, lastErr, resp, err, out>>
    /\ UNCHANGED <<crumb, cookie, cookieStrategy, jar, cacheDir, client, userAgent, cacheFile, saved,
                 cfgVars, dlVars>>

\* The error return without the deferred Unlock.
AcqReturnError_LockKept(w) ==
    /\ mu' = mu
    /\ reqCrumb' = [reqCrumb EXCEPT ![w] = << >>]
    /\ pc' = [pc EXCEPT ![w] = "headers"]
    /\ UNCHANGED <<crumb, cacheFile, saved>>

\* getCookieAndCrumb returns ("", error): doRequest goes on without a crumb.
AcqReturnError(w) ==
    /\ mu' = NoOne
    /\ reqCrumb' = [reqCrumb EXCEPT ![w] = << >>]
    /\ pc' = [pc EXCEPT ![w] = "headers"]
    /\ UNCHANGED <<crumb, cacheFile, saved>>

\* A strategy failed: fall back to the other one once, else return the error.
AcqFail(w, fb, other) ==
    IF fb
    THEN AcqReturnError(w) /\ cookieStrategy' = cookieStrategy
    ELSE /\ cookieStrategy' = other
         /\ pc' = [pc EXCEPT ![w] = IF other = "csrf" THEN "csrfCookieFb" ELSE "basicCookieFb"]
         /\ UNCHANGED <<mu, reqCrumb, crumb, cacheFile, saved>>

\* A strategy returned the crumb c: validate, store, save, unlock.
AcqDone(w, c) ==
    /\ cookieStrategy' = cookieStrategy
    /\ IF ~isValidCrumb(c)
       THEN AcqReturnError(w)
       ELSE /\ crumb' = c
            /\ cacheFile' = saveCookieCache(cacheDir, cacheFile, now, cookie, c, cookieStrategy)
            /\ saved' = IF cacheDir
                        THEN [set |-> TRUE, cookie |-> cookie, crumb |-> c,
                              strategy |-> cookieStrategy, at |-> now]
                        ELSE saved
            /\ mu' = NoOne
            /\ reqCrumb' = [reqCrumb EXCEPT ![w] = c]
            /\ pc' = [pc EXCEPT ![w] = "headers"]

AcqFrame == UNCHANGED <<task, attempt, retries, lastErr, resp, err, out, seen,
                        cacheDir, client, userAgent, cfgVars, dlVars, batch, api>>

\* getCookieBasicInternal: the request to the cookie endpoint completes.
getCookieBasicInternal(w, fb) ==
    /\ Alive
    /\ pc[w] = Step("basicCookie", fb)
    /\ \/ /\ ctxDone \/ net.fail
          /\ AcqFail(w, fb, "csrf")
          /\ UNCHANGED <<cookie, jar>>
       \/ /\ ~ctxDone
          /\ \/ cookie' = A3Value /\ jar' = A3Value
             \/ cookie' = (IF jar # NoCookie THEN jar ELSE cookie) /\ jar' = jar
          /\ pc' = [pc EXCEPT ![w] = Step("basicCrumb", fb)]
          /\ UNCHANGED <<mu, reqCrumb, crumb, cacheFile, saved, cookieStrategy>>
    /\ AcqFrame

\* The getcrumb endpoint answers with status 429 instead of a body.
RateLimitAnswer == <<"status 429">>

\* getCrumbBasicInternal / getCrumbCSRFInternal: the getcrumb request completes
\* with a transport error, a 429, or a body. The function returns an error
\* for each of the first two and for a rejected body, and its caller only
\* tests err != nil.
getCrumbInternal(w, fb, other) ==
    \/ (ctxDone \/ net.fail) /\ AcqFail(w, fb, other)
    \/ /\ ~ctxDone
       /\ \E body \in net.crumbs :
            IF body = RateLimitAnswer THEN AcqFail(w, fb, other)
            ELSE IF CrumbBodyRejected(body) THEN AcqFail(w, fb, other)
            ELSE AcqDone(w, body)

getCrumbBasicInternal(w, fb) ==
    /\ Alive
    /\ pc[w] = Step("basicCrumb", fb)
    /\ getCrumbInternal(w, fb, "csrf")
    /\ UNCHANGED <<cookie, jar>>
    /\ AcqFrame

\* getCookieCSRFInternal: the consent page, the consent form and the
\* copyConsent request; any of them may fail, or the page may lack csrfToken.
getCookieCSRFInternal(w, fb) ==
    /\ Alive
    /\ pc[w] = Step("csrfCookie", fb)
    /\ \/ /\ ctxDone \/ net.fail
          /\ AcqFail(w, fb, "basic")
          /\ UNCHANGED cookie
       \/ /\ ~ctxDone
          /\ cookie' = CsrfObtained
          /\ pc' = [pc EXCEPT ![w] = Step("csrfCrumb", fb)]
          /\ UNCHANGED <<mu, reqCrumb, crumb, cacheFile, saved, cookieStrategy>>
    /\ jar' = jar
    /\ AcqFrame

getCrumbCSRFInternal(w, fb) ==
    /\ Alive
    /\ pc[w] = Step("csrfCrumb", fb)
    /\ getCrumbInternal(w, fb, "basic")
    /\ UNCHANGED <<cookie, jar>>
    /\ AcqFrame


\* setBrowserHeadersSafe reads the user agent under the lock; the request
\* is then handed to client.Do.
setBrowserHeadersSafe(w) ==
    /\ Alive
    /\ pc[w] = "headers"
    /\ MuFree(w)
    /\ pc' = [pc EXCEPT ![w] = "clientDo"]
    /\ UNCHANGED <<task, attempt, retries, lastErr, reqCrumb, resp, err, out, seen>>
    /\ UNCHANGED <<cfgVars, ydVars, dlVars, batch, api>>

\* After an error or a 429: back off and retry, or give up with e.
RetryOrReturn(w, e) ==
    IF attempt[w] < retries[w]
    THEN /\ pc' = [pc EXCEPT ![w] = "sleep"]
         /\ UNCHANGED <<resp, err, out, task>>
    ELSE ReturnFrom(w, NilResp, e)

\* client.Do returns a transport error (always so once ctx is cancelled).
clientDoError(w) ==
    /\ Alive
    /\ pc[w] = "clientDo"
    /\ ctxDone \/ net.fail
    /\ lastErr' = [lastErr EXCEPT ![w] = ErrTransport]
    /\ seen' = [seen EXCEPT ![w].last = 0]
    /\ RetryOrReturn(w, ErrTransport)
    /\ UNCHANGED <<attempt, retries, reqCrumb, cfgVars, ydVars, dlVars, batch, api>>

\* The branch of makeRequest's loop body a response takes.
Classify_429AsAuth(r) ==
    IF r.consent THEN "consent"
    ELSE IF r.status = 401 \/ r.status = 403 \/ r.status = 429 THEN "auth"
    ELSE "return"

Classify_ErrorStatusAsAuth(r) ==
    IF r.status = 429 THEN "rate limit"
    ELSE IF r.consent THEN "consent"
    ELSE IF r.status >= 400 THEN "auth"
    ELSE "return"

Classify_AuthAsRateLimit(r) ==
    IF r.status = 429 \/ r.status = 401 \/ r.status = 403 THEN "rate limit"
    ELSE IF r.consent THEN "consent"
    ELSE "return"

Classify(r) ==
    IF r.status = 429 THEN "rate limit"
    ELSE IF r.consent THEN "consent"
    ELSE IF r.status = 401 \/ r.status = 403 THEN "auth"
    ELSE "return"

\* client.Do returns a response, which makeRequest classifies.
clientDoResponse(w, r) ==
    /\ Alive
    /\ pc[w] = "clientDo"
    /\ ~ctxDone
    /\ r \in net.api
    /\ seen' = [seen EXCEPT ![w].last = r.status,
                            ![w].s429 = @ + (IF r.status = 429 THEN 1 ELSE 0),
                            ![w].consent = @ + (IF r.consent THEN 1 ELSE 0)]
    /\ LET class == Classify(r)
       IN  IF class = "rate limit"
           THEN /\ lastErr' = [lastErr EXCEPT ![w] = ErrRateLimit]
                /\ pc' = [pc EXCEPT ![w] = "switchCookieStrategy"]
                /\ UNCHANGED <<resp, err, out, task>>
           ELSE IF class = "consent"
           THEN /\ pc' = [pc EXCEPT ![w] = "acceptConsent"]
                /\ UNCHANGED <<lastErr, resp, err, out, task>>
           ELSE IF class = "auth"
           THEN /\ pc' = [pc EXCEPT ![w] = "ResetCrumb"]
                /\ UNCHANGED <<lastErr, resp, err, out, task>>
           ELSE /\ ReturnFrom(w, r, "nil")
                /\ UNCHANGED lastErr
    /\ UNCHANGED <<attempt, retries, reqCrumb, cfgVars, ydVars, dlVars, batch, api>>

OtherStrategy_AlwaysCsrf(s) == "csrf"

\* The strategy switchCookieStrategy toggles to.
OtherStrategy(s) == IF s = "basic" THEN "csrf" ELSE "basic"

\* switchCookieStrategy, then the rest of the 429 branch.
switchCookieStrategy(w) ==
    /\ Alive
    /\ pc[w] = "switchCookieStrategy"
    /\ MuFree(w)
    /\ cookieStrategy' = OtherStrategy(cookieStrategy)
    /\ crumb' = << >>
    /\ cookie' = NoCookie
    /\ seen' = Bump(w, "switches")
    /\ RetryOrReturn(w, lastErr[w])
    /\ UNCHANGED <<attempt, retries, lastErr, reqCrumb>>
    /\ UNCHANGED <<mu, jar, cacheDir, client, userAgent, cacheFile, saved, cfgVars, dlVars, batch, api>>

\* acceptConsent, then `continue`.
acceptConsent(w) ==
    /\ Alive
    /\ pc[w] = "acceptConsent"
    /\ MuFree(w)
    /\ crumb' = << >>
    /\ cookie' = NoCookie
    /\ cookieStrategy' = "csrf"
    /\ Continue(w, lastErr[w])
    /\ UNCHANGED <<retries, lastErr, reqCrumb, seen>>
    /\ UNCHANGED <<mu, jar, cacheDir, client, userAgent, cacheFile, saved, cfgVars, dlVars, batch, api>>

\* ResetCrumb, then the rest of the 401/403 branch.
ResetCrumb(w) ==
    /\ Alive
    /\ pc[w] = "ResetCrumb"
    /\ MuFree(w)
    /\ crumb' = << >>
    /\ cookie' = NoCookie
    /\ IF attempt[w] < retries[w]
       THEN Continue(w, lastErr[w])
       ELSE ReturnFrom(w, NilResp, ErrAuth) /\ attempt' = attempt
    /\ UNCHANGED <<retries, lastErr, reqCrumb, seen>>
    /\ UNCHANGED <<cookieStrategy, mu, jar, cacheDir, client, userAgent, cacheFile, saved, cfgVars,
                 dlVars, batch, api>>

\* time.Sleep(backoff) returns, then `continue`.
Sleep(w) ==
    /\ Alive
    /\ pc[w] = "sleep"
    /\ Continue(w, lastErr[w])
    /\ UNCHANGED <<retries, lastErr, reqCrumb, seen, cfgVars, ydVars, dlVars, batch, api>>

\* GetRawJSON reads the body, looks for the downtime marker and parses.
BodyResult_NoDowntimeCheck(body) ==
    CASE body \in {"down", "malformed"} -> ErrParse
      [] OTHER -> "ok"

BodyResult(body) ==
    CASE body = "down" -> ErrDown
      [] body = "malformed" -> ErrParse
      [] OTHER -> "ok"

readBody(w) ==
    /\ Alive
    /\ pc[w] = "readBody"
    /\ \/ Finish(w, ErrRead)
       \/ Finish(w, BodyResult(resp[w].body))
    /\ UNCHANGED <<attempt, retries, lastErr, reqCrumb, resp, err, seen>>
    /\ UNCHANGED <<cfgVars, ydVars, dlVars, batch, api>>

\* Positions inside a call of GetRawJSON.
Fetching ==
    AcqPcs \cup {"makeRequest", "doRequest", "headers", "clientDo", "switchCookieStrategy",
                 "acceptConsent", "ResetCrumb", "sleep", "readBody"}

\* The goroutines whose History call has no response to its chart request yet.
Unresolved ==
    {w \in Workers : pc[w] \in Fetching /\ ~(pc[w] = "readBody" /\ task[w] = "chart")}

\* The caller cancels the context.
Cancel ==
    /\ Alive
    /\ ~ctxDone
    /\ ctxDone' = TRUE
    /\ seen' = [w \in Workers |-> [seen[w] EXCEPT !.asleep = (pc[w] = "sleep")]]
    /\ pending' = IF dl = "running"
                  THEN Range(tickerChan) \cup {ticker[w] : w \in Unresolved}
                  ELSE {}
    /\ UNCHANGED <<Retries, now, net, Proxy, Timeout, environ, ydVars>>
    /\ UNCHANGED <<pc, task, attempt, retries, lastErr, reqCrumb, resp, err, out>>
    /\ UNCHANGED <<dl, tickers, wanted, tickerChan, workers, wg, ticker, result, batch, api>>

\* ------------------------------------------------------ construction
\* The user agents NewYfData picks from at random; they differ in nothing a
\* request depends on, and one stands for them.
UserAgents == {"Mozilla/5.0"}

\* NewYfData: the fields set by the constructor, then loadCookieCache.
NewYfData(dir, file, t) == loadCookieCache(dir, file, t, NoCookie, << >>, "basic")

\* Files an earlier run may have left: none, or a record it saved.
EarlierFiles ==
    {NoFile}
    \cup {CookieCacheRecord(A3Value, <<"x">>, "basic", e) : e \in {TickHours, 0 - TickHours}}
    \cup {CookieCacheRecord(CsrfObtained, <<"x">>, "csrf", TickHours)}

InitSessionWith(dirs, files) ==
    /\ cacheDir \in dirs
    /\ cacheFile \in (IF cacheDir THEN files ELSE {NoFile})
    /\ LET yd == NewYfData(cacheDir, cacheFile, now)
       IN  /\ crumb = yd.crumb
           /\ cookie = yd.cookie
           /\ cookieStrategy = yd.strategy
    /\ client = NewClient(environ, Proxy)
    /\ userAgent \in UserAgents
    /\ mu = NoOne
    /\ jar = NoCookie
    /\ saved = NothingSaved

InitSession == InitSessionWith(BOOLEAN, EarlierFiles)

InitRequests(p) ==
    /\ pc = [w \in Workers |-> p]
    /\ task = [w \in Workers |-> "direct"]
    /\ attempt = [w \in Workers |-> 0]
    /\ retries = [w \in Workers |-> 0]
    /\ lastErr = [w \in Workers |-> "nil"]
    /\ reqCrumb = [w \in Workers |-> << >>]
    /\ resp = [w \in Workers |-> NilResp]
    /\ err = [w \in Workers |-> "nil"]
    /\ out = [w \in Workers |-> "none"]
    /\ seen = [w \in Workers |-> NoneSeen]

\* The caller has not called the ticker API.
NoCall == [op |-> "none", args |-> << >>, ret |-> << >>, err |-> "nil"]

\* Nothing given, nothing done: no Download is running.
NoBatch == [threads |-> 0, fetched |-> << >>, acquired |-> 0]

NoResult == [Succeeded |-> << >>, Failed |-> << >>, Data |-> {}, Errors |-> {}]

InitNoDownload ==
    /\ dl = "none"
    /\ tickers = << >>
    /\ wanted = [symbols |-> {}, repeated |-> FALSE]
    /\ tickerChan = << >>
    /\ workers = 0
    /\ wg = 0
    /\ ticker = [w \in Workers |-> << >>]
    /\ result = NoResult
    /\ pending = {}
    /\ batch = NoBatch
    /\ api = NoCall

\* Every answer the model knows.
AnyTransport == [api |-> Responses, crumbs |-> CrumbBodies, fail |-> TRUE]

Init ==
    /\ Retries = 0
    /\ ctxDone = FALSE
    /\ InitConfig
    /\ now = 0
    /\ net = AnyTransport
    /\ InitSession
    /\ InitRequests("idle")
    /\ InitNoDownload

Request(w) ==
    \/ makeRequest(w)
    \/ getCookieAndCrumb(w)
    \/ \E fb \in BOOLEAN : getCookieBasicInternal(w, fb)
    \/ \E fb \in BOOLEAN : getCrumbBasicInternal(w, fb)
    \/ \E fb \in BOOLEAN : getCookieCSRFInternal(w, fb)
    \/ \E fb \in BOOLEAN : getCrumbCSRFInternal(w, fb)
    \/ setBrowserHeadersSafe(w)
    \/ clientDoError(w)
    \/ \E r \in Responses : clientDoResponse(w, r)
    \/ switchCookieStrategy(w)
    \/ acceptConsent(w)
    \/ ResetCrumb(w)
    \/ Sleep(w)
    \/ readBody(w)

\* One caller issuing requests on one session, one after the other.
Next ==
    \/ GetRawJSON(1)
    \/ Request(1)
    \/ \E n \in RetriesValues : pc[1] = "idle" /\ SetRetries(n)
    \/ Cancel

Spec == Init /\ [][Next]_vars


\* ------------------------------------------------------------ Download
\* The characters of the entries of DownloadOptions.Tickers.
Comma == ","
Space == " "
Chars == {"a", "A", Comma, Space}

\* The values of DownloadOptions.Tickers: up to n entries of up to k characters.
TickerLists(n, k) == SeqsUpTo(SeqsUpTo(Chars, k), n)
ThreadsValues == 0..NumWorkers

\* strings.Split(s, sep)
RECURSIVE Split(_, _)
Split(s, sep) ==
    IF ~Contains(s, sep) THEN <<s>>
    ELSE LET i == CHOOSE k \in 1..Len(s) : s[k] = sep /\ \A j \in 1..(k - 1) : s[j] # sep
         IN  <<SubSeq(s, 1, i - 1)>> \o Split(SubSeq(s, i + 1, Len(s)), sep)

\* strings.TrimSpace
TrimSpace(s) ==
    LET keep == {i \in 1..Len(s) : s[i] # Space}
    IN  IF keep = {} THEN << >>
        ELSE SubSeq(s, CHOOSE i \in keep : \A j \in keep : i <= j,
                       CHOOSE i \in keep : \A j \in keep : j <= i)

\* unicode.ToUpper on the letters the model uses.
Upper(c) ==
    CASE c = "a" -> "A" [] c = "n" -> "N" [] c = "p" -> "P" [] c = "r" -> "R"
      [] c = "s" -> "S" [] c = "x" -> "X" [] c = "y" -> "Y"
      [] OTHER -> c

\* strings.ToUpper
ToUpper(s) == [i \in 1..Len(s) |-> Upper(s[i])]

\* The body of Download's inner loop for the part p: the list after it.
AppendTicker_NoSeen(acc, p) ==
    LET q == ToUpper(TrimSpace(p))
    IN  IF q # << >> THEN Append(acc, q) ELSE acc

AppendTicker(acc, p) ==
    LET q == ToUpper(TrimSpace(p))
    IN  IF q # << >> /\ q \notin Range(acc) THEN Append(acc, q) ELSE acc

\* The inner loop, over the parts of one entry.
RECURSIVE AppendParts(_, _)
AppendParts(acc, parts) ==
    IF parts = << >> THEN acc
    ELSE AppendParts(AppendTicker(acc, Head(parts)), Tail(parts))

\* The outer loop, over options.Tickers.
RECURSIVE NormalizeTickers(_, _)
NormalizeTickers(acc, list) ==
    IF list = << >> THEN acc
    ELSE NormalizeTickers(AppendParts(acc, Split(Head(list), Comma)), Tail(list))

\* The symbols an input names, stated without the loop: the comma-free
\* stretches of its entries between commas or the ends, trimmed and upper-cased.
Stretches(t) ==
    {x \in (1..(Len(t) + 1)) \X (0..Len(t)) :
        /\ x[1] <= x[2] + 1
        /\ x[1] = 1 \/ t[x[1] - 1] = Comma
        /\ x[2] = Len(t) \/ t[x[2] + 1] = Comma
        /\ \A k \in x[1]..x[2] : t[k] # Comma}

Namings(list) ==
    {y \in UNION {{<<n, x>> : x \in Stretches(list[n])} : n \in 1..Len(list)} :
        TrimSpace(SubSeq(list[y[1]], y[2][1], y[2][2])) # << >>}

SymbolsNamed(list) ==
    {ToUpper(TrimSpace(SubSeq(list[y[1]], y[2][1], y[2][2]))) : y \in Namings(list)}

\* What t.History returned for the goroutine's ticker.
HistoryErr(w) ==
    IF out[w] # "ok" THEN out[w]
    ELSE IF resp[w].body = "chartError" THEN ErrChart
    ELSE "nil"

PoolSize_NoFloor(threads, tickerCount) ==
    IF threads > tickerCount THEN tickerCount ELSE threads

\* The pool size without the clamp to the number of tickers.
PoolSize_NoCeiling(threads, tickerCount) ==
    IF threads <= 0 THEN 1 ELSE threads

\* The number of goroutines Download starts for options.Threads and the
\* normalized tickers: at least one, at most one per ticker.
PoolSize(threads, tickerCount) ==
    LET n == IF threads <= 0 THEN 1 ELSE threads
    IN  IF n > tickerCount THEN tickerCount ELSE n

NoTickers_Never(list) == FALSE

\* len(options.Tickers) == 0
NoTickers(list) == Len(list) = 0

\* Download up to the start of its goroutines (or its return, for no tickers).
Download(list, threads) ==
    /\ Alive
    /\ dl = "none"
    /\ wanted' = [symbols |-> SymbolsNamed(list),
                  repeated |-> Cardinality(Namings(list)) > Cardinality(SymbolsNamed(list))]
    /\ result' = NoResult
    /\ batch' = [threads |-> threads, fetched |-> << >>, acquired |-> 0]
    /\ api' = api
    /\ IF NoTickers(list)
       THEN /\ dl' = "returned"
            /\ UNCHANGED <<tickers, tickerChan, workers, wg, pc>>
            /\ UNCHANGED <<crumb, cookie, cookieStrategy, mu, jar, client, userAgent>>
       ELSE LET ts == NormalizeTickers(<< >>, list)
                k == PoolSize(threads, Len(ts))
                yd == NewYfData(cacheDir, cacheFile, now)
            IN  /\ tickers' = ts
                /\ client' = NewClient(environ, Proxy)
                /\ userAgent' \in UserAgents
                /\ crumb' = yd.crumb
                /\ cookie' = yd.cookie
                /\ cookieStrategy' = yd.strategy
                /\ mu' = NoOne
                /\ jar' = NoCookie
                /\ workers' = k
                /\ tickerChan' = ts
                /\ wg' = k
                /\ pc' = [w \in Workers |-> IF w <= k THEN "recv" ELSE pc[w]]
                /\ dl' = "running"
    /\ UNCHANGED <<ticker, pending, cacheDir, cacheFile, saved, cfgVars>>
    /\ UNCHANGED <<task, attempt, retries, lastErr, reqCrumb, resp, err, out, seen>>

\* DefaultDownloadOptions: no tickers, four threads.
DefaultThreads == 4
DefaultDownloadOptions == [Tickers |-> << >>, Threads |-> DefaultThreads]

\* Download called with nil options.
DownloadNil == Download(DefaultDownloadOptions.Tickers, DefaultDownloadOptions.Threads)

\* The receive from a channel that was not closed: it blocks once the channel
\* is drained.
Recv_QueueNotClosed(w) ==
    /\ Alive
    /\ pc[w] = "recv"
    /\ tickerChan # << >>
    /\ ticker' = [ticker EXCEPT ![w] = Head(tickerChan)]
    /\ batch' = [batch EXCEPT !.fetched = Append(@, Head(tickerChan))]
    /\ api' = api
    /\ tickerChan' = Tail(tickerChan)
    /\ pc' = [pc EXCEPT ![w] = "makeRequest"]
    /\ task' = [task EXCEPT ![w] = "tz"]
    /\ resp' = [resp EXCEPT ![w] = NilResp]
    /\ err' = [err EXCEPT ![w] = "nil"]
    /\ out' = [out EXCEPT ![w] = "none"]
    /\ wg' = wg
    /\ UNCHANGED <<dl, tickers, wanted, workers, result, pending>>
    /\ UNCHANGED <<attempt, retries, lastErr, reqCrumb, seen, cfgVars, ydVars>>

\* A goroutine at `for ticker := range tickerChan`: the channel is drained and
\* the goroutine ends (wg.Done), or it receives a ticker and calls History.
Recv(w) ==
    /\ Alive
    /\ pc[w] = "recv"
    /\ IF tickerChan = << >>
       THEN /\ pc' = [pc EXCEPT ![w] = "exited"]
            /\ wg' = wg - 1
            /\ UNCHANGED <<tickerChan, ticker, task, resp, err, out, batch, api>>
       ELSE /\ ticker' = [ticker EXCEPT ![w] = Head(tickerChan)]
            /\ batch' = [batch EXCEPT !.fetched = Append(@, Head(tickerChan))]
            /\ api' = api
            /\ tickerChan' = Tail(tickerChan)
            /\ pc' = [pc EXCEPT ![w] = "makeRequest"]
            /\ task' = [task EXCEPT ![w] = "tz"]
            /\ resp' = [resp EXCEPT ![w] = NilResp]
            /\ err' = [err EXCEPT ![w] = "nil"]
            /\ out' = [out EXCEPT ![w] = "none"]
            /\ wg' = wg
    /\ UNCHANGED <<dl, tickers, wanted, workers, result, pending>>
    /\ UNCHANGED <<attempt, retries, lastErr, reqCrumb, seen, cfgVars, ydVars>>

\* History returned: the goroutine records the ticker under the result mutex,
\* and the iteration, with the locals of the calls it made, is over.
Record(w) ==
    /\ Alive
    /\ pc[w] = "record"
    /\ result' = IF HistoryErr(w) # "nil"
                 THEN [result EXCEPT !.Failed = Append(@, ticker[w]),
                                     !.Errors = @ \cup {ticker[w]}]
                 ELSE [result EXCEPT !.Succeeded = Append(@, ticker[w]),
                                     !.Data = @ \cup {ticker[w]}]
    /\ pc' = [pc EXCEPT ![w] = "recv"]
    /\ ticker' = [ticker EXCEPT ![w] = << >>]
    /\ task' = [task EXCEPT ![w] = "direct"]
    /\ attempt' = [attempt EXCEPT ![w] = 0]
    /\ retries' = [retries EXCEPT ![w] = 0]
    /\ lastErr' = [lastErr EXCEPT ![w] = "nil"]
    /\ reqCrumb' = [reqCrumb EXCEPT ![w] = << >>]
    /\ resp' = [resp EXCEPT ![w] = NilResp]
    /\ err' = [err EXCEPT ![w] = "nil"]
    /\ out' = [out EXCEPT ![w] = "none"]
    /\ seen' = [seen EXCEPT ![w] = NoneSeen]
    /\ UNCHANGED <<dl, tickers, wanted, tickerChan, workers, wg, pending, batch, api>>
    /\ UNCHANGED <<cfgVars, ydVars>>

\* Download returning without having waited for its goroutines.
Return_NoWait ==
    /\ Alive
    /\ dl = "running"
    /\ dl' = "returned"
    /\ UNCHANGED <<tickers, wanted, tickerChan, workers, wg, ticker, result, pending, batch, api>>
    /\ UNCHANGED <<cfgVars, ydVars, reqVars>>

\* wg.Wait() returns once every goroutine has called wg.Done; Download then
\* returns the result.
Return ==
    /\ Alive
    /\ dl = "running"
    /\ wg = 0
    /\ dl' = "returned"
    /\ UNCHANGED <<tickers, wanted, tickerChan, workers, wg, ticker, result, pending, batch, api>>
    /\ UNCHANGED <<cfgVars, ydVars, reqVars>>

\* The servers' behaviour during one Download: healthy, a consent wall,
\* rate limiting, or rejected credentials.
DownloadTransports ==
    {[api |-> {r \in Responses : r.status = 200 /\ ~r.consent
                                 /\ r.body \in {"chart", "chartError"}},
      crumbs |-> {<<"x">>}, fail |-> FALSE],
     [api |-> {r \in Responses : r.status = 200 /\ r.consent},
      crumbs |-> {<<"x">>}, fail |-> FALSE],
     [api |-> {r \in Responses : r.status = 429 /\ ~r.consent},
      crumbs |-> {<<TooMany>>}, fail |-> FALSE],
     [api |-> {r \in Responses : r.status = 401},
      crumbs |-> {<<"x">>}, fail |-> FALSE]}

\* One call of Download after SetRetries(1).
InitDownload ==
    /\ Retries = 1
    /\ ctxDone = FALSE
    /\ InitConfig
    /\ now = 0
    /\ net \in DownloadTransports
    /\ InitSessionWith({TRUE}, {NoFile})
    /\ InitRequests("unstarted")
    /\ InitNoDownload

Worker(w) ==
    \/ Recv(w)
    \/ Request(w)
    \/ Record(w)

NextDownload ==
    \/ dl = "none" /\ \E list \in TickerLists(MaxTickers, MaxStrLen), threads \in ThreadsValues :
                            Download(list, threads)
    \/ DownloadNil
    \/ \E w \in Workers : Worker(w)
    \/ Return
    \/ Cancel

SpecDownload == InitDownload /\ [][NextDownload]_vars

\* The scheduler runs every goroutine that can take a step, and Download
\* itself once its wait is over.
FairSpecDownload ==
    /\ SpecDownload
    /\ \A w \in Workers : WF_vars(Worker(w))
    /\ WF_vars(Return)

\* ------------------------------------------------- the cache over time
\* NewTicker: the caller makes a ticker, and with it a new session that
\* loads the cache file.
NewTicker ==
    /\ Alive
    /\ pc[1] = "idle"
    /\ LET yd == NewYfData(cacheDir, cacheFile, now)
       IN  /\ crumb' = yd.crumb
           /\ cookie' = yd.cookie
           /\ cookieStrategy' = yd.strategy
    /\ client' = NewClient(environ, Proxy)
    /\ userAgent' \in UserAgents
    /\ mu' = NoOne
    /\ jar' = NoCookie
    /\ UNCHANGED <<cacheDir, cacheFile, saved, cfgVars, reqVars, dlVars, batch, api>>

\* Time passes.
Tick ==
    /\ Alive
    /\ now < MaxNow * TickHours
    /\ now' = now + TickHours
    /\ UNCHANGED <<Retries, ctxDone, net, Proxy, Timeout, environ, ydVars, reqVars, dlVars, batch, api>>

CacheTransports ==
    {[api |-> {r \in Responses : r.body \in {"chart", "malformed"} /\ ~r.consent
                                 /\ r.status \in {200, 429}},
      crumbs |-> {<<"x">>, <<BadByte>>}, fail |-> FALSE],
     [api |-> {r \in Responses : (r.status = 401 \/ r.consent) /\ r.status # 429},
      crumbs |-> {<<"x">>, <<Html>>}, fail |-> TRUE]}

InitCache ==
    /\ Retries = 1
    /\ ctxDone = FALSE
    /\ InitConfig
    /\ now = 0
    /\ net \in CacheTransports
    /\ InitSession
    /\ InitRequests("idle")
    /\ InitNoDownload

NextCache ==
    \/ GetRawJSON(1)
    \/ Request(1)
    \/ NewTicker
    \/ Tick

SpecCache == InitCache /\ [][NextCache]_vars

\* ------------------------------------------------- claims: one request
\* makeRequest has returned to GetRawJSON.
Returned(w) ==
    \/ pc[w] \in {"readBody", "panic"}
    \/ pc[w] \in {"idle", "record", "makeRequest"} /\ out[w] # "none"

Success(w) == resp[w] # NilResp /\ err[w] = "nil"

\* No request is dispatched more often than its budget allows.
DispatchBound ==
    \A w \in Workers : retries[w] >= 0 => seen[w].disp <= retries[w] + 1

\* C2: a request that completes yields exactly one of a response or a
\* non-nil error, for every sequence of outcomes and every retry count >= 0.
C2_ResponseXorError ==
    \A w \in Workers :
        Returned(w) /\ retries[w] >= 0 =>
            ((resp[w] # NilResp) # (err[w] # "nil"))

\* The 429, 429, 200 scenario of C4: three dispatches, the first two answered
\* 429, the third 200, none from a consent host, with a budget of at least 2.
TwoRateLimitsThenOK(w) ==
    /\ Returned(w)
    /\ retries[w] >= 2
    /\ seen[w].disp = 3
    /\ seen[w].s429 = 2
    /\ seen[w].consent = 0
    /\ seen[w].last = 200

\* C4 as stated: in the 429, 429, 200 scenario the request succeeds and the
\* strategy is switched exactly once.
C4_SwitchedExactlyOnce ==
    \A w \in Workers :
        TwoRateLimitsThenOK(w) => Success(w) /\ seen[w].switches = 1

\* C4 as amended: in the 429, 429, 200 scenario the request succeeds with the
\* 200 response and switchCookieStrategy has run twice, once per 429.
C4_SwitchedOncePer429 ==
    \A w \in Workers :
        TwoRateLimitsThenOK(w) =>
            Success(w) /\ resp[w].status = 200 /\ seen[w].switches = 2

C4_Witness == \E w \in Workers : TwoRateLimitsThenOK(w)

\* C5: when every answer comes from a consent host, the request never
\* succeeds, stays within its budget and ends with a non-nil error.
C5_ConsentEndsInError ==
    \A w \in Workers :
        Returned(w) /\ seen[w].disp >= 1 /\ seen[w].consent = seen[w].disp =>
            /\ seen[w].disp <= retries[w] + 1
            /\ ~Success(w)
            /\ err[w] # "nil"

\* The crumbs C6 names: empty, the rate-limit message, or holding "<html>".
BadCrumb(c) == c = << >> \/ c = <<TooMany>> \/ Contains(c, Html)

\* C6: isValidCrumb accepts no bad crumb the transport may answer with, the
\* session holds none, and the cache file never holds one.
C6_BadCrumbNeverValidNorCached ==
    /\ \A c \in net.crumbs : BadCrumb(c) => ~isValidCrumb(c)
    /\ crumb # << >> => ~BadCrumb(crumb)
    /\ cacheFile.present => ~BadCrumb(jsonUnmarshalString(cacheFile.crumb))

\* A crumb was acquired and saved by this session, and invalidated since.
C6_Witness ==
    /\ cacheFile.present
    /\ cacheFile.expiry = now + CacheHours
    /\ crumb = << >>
    /\ \E w \in Workers : seen[w].switches >= 1

\* C8: a request that was in its backoff sleep when the context was
\* cancelled makes no further dispatch attempt.
C8_NoDispatchAfterCancel ==
    \A w \in Workers : ~seen[w].late

\* C10: a request is dispatched at most retries+1 times, and when the budget
\* is exhausted without a response an error is surfaced.
C10_BudgetThenLastError ==
    \A w \in Workers :
        Returned(w) /\ retries[w] >= 0 =>
            /\ seen[w].disp <= retries[w] + 1
            /\ (seen[w].disp = retries[w] + 1 /\ resp[w] = NilResp => err[w] # "nil")


\* ------------------------------------------- concurrent requests
\* The servers' behaviour while several goroutines share one session: as
\* during a Download, or an unreliable network with error pages for crumbs.
ConcTransports ==
    DownloadTransports
    \cup {[api |-> {r \in Responses : r.status = 200 /\ ~r.consent /\ r.body = "chart"},
           crumbs |-> {<<"x">>, <<Html>>}, fail |-> TRUE]}

\* Several goroutines share one session after SetRetries(1).
InitConc ==
    /\ Retries = 1
    /\ ctxDone = FALSE
    /\ InitConfig
    /\ now = 0
    /\ net \in ConcTransports
    /\ InitSessionWith({TRUE}, {NoFile})
    /\ InitRequests("idle")
    /\ InitNoDownload

NextConc ==
    \E w \in Workers :
        \/ GetRawJSON(w)
        \/ Request(w)

SpecConc == InitConc /\ [][NextConc]_vars

\* The goroutines inside an acquisition strategy.
Acquiring == {w \in Workers : pc[w] \in AcqPcs}

\* C3: at most one credential acquisition is in progress at any time.
C3_OneAcquisitionAtATime == Cardinality(Acquiring) <= 1

\* One goroutine is inside a strategy while another waits for the lock in
\* getCookieAndCrumb.
C3_Witness ==
    \E w, v \in Workers :
        /\ w # v
        /\ pc[w] \in AcqPcs
        /\ pc[v] = "doRequest"
        /\ mu = w

\* ------------------------------------------------------ claims: Download
\* The tickers the goroutines hold: received, not yet recorded.
InHand == {w \in Workers : ticker[w] # << >>}

C7_CancelledDownloadReturns ==
    (ctxDone /\ dl = "running") ~>
        (dl = "returned" /\ pending \subseteq Range(result.Failed))

\* A cancelled Download that does not return has crashed.
CancelledDownloadReturnsOrCrashes ==
    (ctxDone /\ dl = "running") ~>
        (~Alive \/ (dl = "returned" /\ pending \subseteq Range(result.Failed)))

\* ------------------------------------------------------- claims: cache
\* C9: a session constructed after a save holds the saved cookie, crumb and
\* strategy while the 24 hours have not elapsed, and none of them afterwards.
C9_CacheRoundTrip ==
    [][(saved.set /\ NewTicker) =>
          /\ now < saved.at + CacheHours =>
                /\ cookie' = saved.cookie
                /\ crumb' = saved.crumb
                /\ cookieStrategy' = saved.strategy
          /\ now > saved.at + CacheHours =>
                /\ cookie' = NoCookie
                /\ crumb' = << >>
                /\ cookieStrategy' = "basic"]_vars

\* The same for the crumbs that are valid UTF-8.
CacheRoundTripOfValidUTF8 ==
    [][(saved.set /\ ~Contains(saved.crumb, BadByte) /\ NewTicker) =>
          /\ now < saved.at + CacheHours =>
                /\ cookie' = saved.cookie
                /\ crumb' = saved.crumb
                /\ cookieStrategy' = saved.strategy
          /\ now > saved.at + CacheHours =>
                /\ cookie' = NoCookie
                /\ crumb' = << >>
                /\ cookieStrategy' = "basic"]_vars

C12_EachSymbolFetchedOnce ==
    /\ Cardinality(Range(batch.fetched)) = Len(batch.fetched)
    /\ result.Errors = Range(result.Failed)
    /\ (dl = "returned" \/ (dl = "running" /\ ~Alive)) =>
          Range(batch.fetched) = wanted.symbols

\* The same for the calls of Download that return.
FetchedOnceWhenReturned ==
    /\ Cardinality(Range(batch.fetched)) = Len(batch.fetched)
    /\ result.Errors = Range(result.Failed)
    /\ dl = "returned" => Range(batch.fetched) = wanted.symbols

\* ------------------------------------- claims: credentials in a batch
\* Normal conditions: the context is not cancelled, no request fails, every
\* crumb the server hands out is valid and no answer is a 401, 403, 429 or a
\* consent redirect.
NormalConditions ==
    /\ ~ctxDone
    /\ ~net.fail
    /\ \A c \in net.crumbs : isValidCrumb(c)
    /\ \A r \in net.api : ~r.consent /\ r.status \notin {401, 403, 429}

\* C13: under normal conditions the goroutines of one Download, which all
\* use the one session Download made, enter credential acquisition at most
\* once in total.
C13_OneAcquisitionPerBatch ==
    (dl # "none" /\ NormalConditions) => batch.acquired <= 1

\* Download returned under normal conditions after both goroutines fetched
\* symbols, and the credentials were acquired once.
C13_Witness ==
    /\ dl = "returned"
    /\ NormalConditions
    /\ workers = NumWorkers
    /\ Len(batch.fetched) >= NumWorkers
    /\ \A w \in Workers : pc[w] = "exited"
    /\ batch.acquired = 1

\* C14: each step that invalidates the credentials (after a 401/403, a 429
\* or a consent redirect) leaves the session without cookie and crumb and
\* the cache file such that a session constructed next loads nothing from it.
C14_InvalidationClearsCache ==
    [][(ResetCrumb(1) \/ switchCookieStrategy(1) \/ acceptConsent(1)) =>
          /\ crumb' = << >>
          /\ cookie' = NoCookie
          /\ ~NewYfData(cacheDir', cacheFile', now').hit]_vars

\* The part that holds: the session itself is left without cookie and crumb.
InvalidationClearsSession ==
    [][(ResetCrumb(1) \/ switchCookieStrategy(1) \/ acceptConsent(1)) =>
          /\ crumb' = << >>
          /\ cookie' = NoCookie]_vars

C16_EveryDowntimeBodyReported ==
    [][/\ \A r \in Responses :
             (clientDoResponse(1, r) /\ r.body = "down")
             => (pc'[1] = "readBody" /\ resp'[1] = r)
       /\ (readBody(1) /\ resp[1].body = "down") => out'[1] \in {ErrDown, ErrRead}]_vars

\* C16 for the responses GetRawJSON reads: a response with a status below 400
\* that is not a consent redirect and whose body has the downtime marker is
\* handed to the body check without retry, and the body check, when it can
\* read the body, reports YFDataException, which is neither the HTTP error
\* nor the JSON parse error.
C16_DowntimeBodyBelow400Reported ==
    [][/\ \A r \in Responses :
             (clientDoResponse(1, r) /\ r.body = "down" /\ r.status < 400 /\ ~r.consent)
             => (pc'[1] = "readBody" /\ resp'[1] = r)
       /\ (readBody(1) /\ resp[1].body = "down") =>
             /\ out'[1] \in {ErrDown, ErrRead}
             /\ pc'[1] = "idle"
             /\ ErrDown \notin {ErrHTTP, ErrParse}]_vars

\* A fetch ended with YFDataException after a 200 answer.
C16_Witness ==
    /\ pc[1] = "idle"
    /\ out[1] = ErrDown
    /\ seen[1].last = 200
    /\ resp[1].body = "down"

\* ------------------------------------------------ claims: pool size
Least(S) == CHOOSE m \in S : \A x \in S : m <= x

Greatest(S) == CHOOSE m \in S : \A x \in S : m >= x

Started == {w \in Workers : pc[w] # "unstarted"}

\* C17 as stated: Download starts min(options.Threads, number of distinct
\* symbols, 1) goroutines.
C17_PoolIsMinWithOne ==
    dl # "none" =>
        /\ workers = Least({batch.threads, Cardinality(wanted.symbols), 1})
        /\ Cardinality(Started) = workers

\* C17 as the code has it: Download starts min(max(options.Threads, 1),
\* number of distinct symbols) goroutines.
C17_PoolIsClampedThreads ==
    dl # "none" =>
        /\ workers = Least({Greatest({batch.threads, 1}), Cardinality(wanted.symbols)})
        /\ Cardinality(Started) = workers

\* Download started as many goroutines as configured, more than one.
C17_Witness ==
    /\ dl = "running"
    /\ batch.threads = NumWorkers
    /\ workers = NumWorkers
    /\ Cardinality(Started) = NumWorkers
    /\ NumWorkers > 1

\* ------------------------------------------- configuration over time
\* The servers' behaviour while the configuration is changed between
\* requests: any of the answers that make makeRequest return or retry.
ConfigTransport ==
    [api |-> {r \in Responses : r.body \in {"chart", "malformed"} /\ r.status # 403},
     crumbs |-> {<<"x">>, <<Html>>}, fail |-> TRUE]

\* A process started with any setting of the proxy variables; no cache.
InitConfigured ==
    /\ Retries = 1
    /\ ctxDone = FALSE
    /\ Proxy = NoProxy
    /\ Timeout = DefaultTimeout
    /\ environ \in Environs
    /\ now = 0
    /\ net = ConfigTransport
    /\ InitSessionWith({FALSE}, {NoFile})
    /\ InitRequests("idle")
    /\ InitNoDownload

\* One caller that changes the configuration between its requests and may
\* make a new ticker, and with it a new session.
NextConfig ==
    \/ GetRawJSON(1)
    \/ Request(1)
    \/ NewTicker
    \/ \E n \in RetriesValues \ {0} : pc[1] = "idle" /\ SetRetries(n)
    \/ \E p \in ProxyValues : pc[1] = "idle" /\ SetProxy(p)
    \/ \E t \in TimeoutValues \ {0} : pc[1] = "idle" /\ SetTimeout(t)
    \/ \E p \in ProxyValues, n \in RetriesValues \ {0}, t \in TimeoutValues :
            pc[1] = "idle" /\ SetConfig(p, n, t)

SpecConfig == InitConfigured /\ [][NextConfig]_vars

\* ---------------------------------------------- claims: configuration
EnvProxies == {environ[v] : v \in EnvNames} \ {NoProxy}

\* C18: a session is constructed with the explicitly configured proxy when
\* there is one, else with a proxy of the environment when there is one,
\* else with none.
C18_ExplicitProxyFirst ==
    [][NewTicker =>
          /\ Proxy # NoProxy => client'.proxy = Proxy
          /\ (Proxy = NoProxy /\ EnvProxies # {}) => client'.proxy \in EnvProxies
          /\ (Proxy = NoProxy /\ EnvProxies = {}) => client'.proxy = NoProxy]_vars

\* What the code does: the environment first, the configured proxy last.
EnvironmentProxyFirst ==
    [][NewTicker =>
          /\ EnvProxies # {} => client'.proxy \in EnvProxies
          /\ EnvProxies = {} => client'.proxy = Proxy]_vars

\* C19: a request is dispatched with the retry count, the timeout and the
\* proxy the configuration holds at that moment.
C19_ConfigReadAtRequest ==
    \A w \in Workers :
        pc[w] = "clientDo" =>
            /\ retries[w] = EffectiveRetries(Retries)
            /\ client.Timeout = GetTimeout
            /\ client.proxy = GetProxy(environ, Proxy)

\* The part that holds: the retry count is read at each request.
RetriesReadAtRequest ==
    \A w \in Workers : pc[w] = "clientDo" => retries[w] = EffectiveRetries(Retries)

\* --------------------------------------------- claims: empty input
\* C20: Download called with an empty ticker list, or with nil options,
\* returns at once an empty result, and no goroutine is started.
C20_EmptyInputReturnsEmpty ==
    [][((\E threads \in ThreadsValues : Download(<< >>, threads)) \/ DownloadNil) =>
          /\ dl' = "returned"
          /\ result'.Succeeded = << >> /\ result'.Failed = << >>
          /\ result'.Data = {} /\ result'.Errors = {}
          /\ workers' = 0 /\ wg' = 0
          /\ \A w \in Workers : pc'[w] = "unstarted"]_vars

\* Download returned for nil options.
C20_Witness ==
    /\ dl = "returned"
    /\ batch.threads = DefaultThreads
    /\ result = NoResult
    /\ \A w \in Workers : pc[w] = "unstarted"

\* ------------------------------------------------ damaged cache files
\* Files loadCookieCache cannot use: one it cannot read, one that is not the
\* JSON of a record, a record with an error page as crumb, an expired record
\* of the other strategy.
DamagedFiles ==
    {[CookieCacheRecord(A3Value, <<"x">>, "csrf", TickHours) EXCEPT !.readable = FALSE],
     [CookieCacheRecord(A3Value, <<"x">>, "csrf", TickHours) EXCEPT !.parses = FALSE],
     CookieCacheRecord(CsrfObtained, <<Html>>, "csrf", TickHours),
     CookieCacheRecord(CsrfObtained, <<"x">>, "csrf", 0 - TickHours)}

\* The servers' behaviour for sessions made from any cache file: any body
\* from the getcrumb endpoints.
LoadTransport == [ConfigTransport EXCEPT !.crumbs = CrumbBodies]

InitLoad ==
    /\ Retries = 1
    /\ ctxDone = FALSE
    /\ InitConfig
    /\ now = 0
    /\ net = LoadTransport
    /\ InitSessionWith(BOOLEAN, EarlierFiles \cup DamagedFiles)
    /\ InitRequests("idle")
    /\ InitNoDownload

\* Sessions constructed over time from whatever file is there.
SpecLoad == InitLoad /\ [][NextCache]_vars

\* -------------------------------------------------- claims: cache miss
\* The cases C21 lists: no cache directory or file, a file that cannot be
\* read or decoded, an expired record, a record whose crumb is not valid.
CacheMissCase(dir, file, t) ==
    \/ ~dir
    \/ ~file.present
    \/ ~file.readable
    \/ ~file.parses
    \/ t > file.expiry
    \/ ~isValidCrumb(jsonUnmarshalString(file.crumb))

\* C21: in each of these cases loadCookieCache reports a miss and leaves
\* cookie, crumb and strategy as they were, whatever they were; so a session
\* constructed then has the constructor's values.
C21_MissLeavesSessionAsItWas ==
    [][(NewTicker /\ CacheMissCase(cacheDir, cacheFile, now)) =>
          /\ \A ck \in {NoCookie, A3Value}, cr \in {<< >>, <<"x">>}, strat \in {"basic", "csrf"} :
                loadCookieCache(cacheDir, cacheFile, now, ck, cr, strat)
                    = [hit |-> FALSE, cookie |-> ck, crumb |-> cr, strategy |-> strat]
          /\ cookie' = NoCookie
          /\ crumb' = << >>
          /\ cookieStrategy' = "basic"
          /\ Alive']_vars

\* A session made from a readable record of the csrf strategy that has
\* expired: it holds nothing of the record.
C21_Witness ==
    /\ cacheDir
    /\ cacheFile.present /\ cacheFile.readable /\ cacheFile.parses
    /\ cacheFile.strategy = "csrf"
    /\ now > cacheFile.expiry
    /\ now > 0
    /\ pc[1] = "idle" /\ out[1] = "none"
    /\ cookie = NoCookie /\ crumb = << >> /\ cookieStrategy = "basic"

\* ------------------------------------------------------ the ticker API
Dot == "."

\* MICToYahooSuffix, two of its entries: one with a suffix, one without.
MICToYahooSuffix ==
    (<<"X", "P", "A", "R">> :> <<"P", "A">>) @@ (<<"X", "N", "Y", "S">> :> << >>)

\* MIC codes a caller may pass: codes of the table and one outside it,
\* as they are, in lower case, and with dots before or after them.
MICInputs ==
    LET codes == {<<"X", "P", "A", "R">>, <<"X", "N", "Y", "S">>, <<"X", "X", "X", "X">>,
                  <<"x", "p", "a", "r">>, <<"x", "n", "y", "s">>, <<"X", "p", "A", "r">>}
    IN  codes \cup {<<Dot>> \o c : c \in codes} \cup {<<Dot, Dot>> \o c : c \in codes}
              \cup {c \o <<Dot>> : c \in codes} \cup {<< >>, <<Dot>>}

\* Symbols a caller may pass.
SymbolInputs == SeqsUpTo({"a", "A", Space}, MaxStrLen)

\* NewTickerWithMIC without the cleaning of the MIC code.
MICSymbol_Verbatim(symbol, micCode) ==
    LET sym == ToUpper(TrimSpace(symbol))
    IN  IF micCode \notin DOMAIN MICToYahooSuffix
        THEN [ok |-> FALSE, Symbol |-> << >>]
        ELSE LET suffix == MICToYahooSuffix[micCode]
                 full == IF suffix # << >> THEN sym \o <<Dot>> \o suffix ELSE sym
             IN  [ok |-> TRUE, Symbol |-> ToUpper(TrimSpace(full))]

\* NewTickerWithMIC: whether the MIC code is known, and the Symbol of the
\* ticker NewTicker then makes.
MICSymbol(symbol, micCode) ==
    LET sym == ToUpper(TrimSpace(symbol))
        cut == IF Len(micCode) > 0 /\ micCode[1] = Dot THEN Tail(micCode) ELSE micCode
        mic == ToUpper(cut)
    IN  IF mic \notin DOMAIN MICToYahooSuffix
        THEN [ok |-> FALSE, Symbol |-> << >>]
        ELSE LET suffix == MICToYahooSuffix[mic]
                 full == IF suffix # << >> THEN sym \o <<Dot>> \o suffix ELSE sym
             IN  [ok |-> TRUE, Symbol |-> ToUpper(TrimSpace(full))]

ErrUnknownMIC == "unknown MIC code"

\* The caller calls NewTickerWithMIC: an error and no ticker, or a ticker
\* with its own new session.
NewTickerWithMIC(symbol, micCode) ==
    /\ Alive
    /\ pc[1] = "idle"
    /\ LET t == MICSymbol(symbol, micCode)
       IN  IF ~t.ok
           THEN /\ api' = [op |-> "NewTickerWithMIC", args |-> <<symbol, micCode>>,
                           ret |-> << >>, err |-> ErrUnknownMIC]
                /\ UNCHANGED <<crumb, cookie, cookieStrategy, client, userAgent, mu, jar>>
           ELSE /\ api' = [op |-> "NewTickerWithMIC", args |-> <<symbol, micCode>>,
                           ret |-> t.Symbol, err |-> "nil"]
                /\ LET yd == NewYfData(cacheDir, cacheFile, now)
                   IN  /\ crumb' = yd.crumb
                       /\ cookie' = yd.cookie
                       /\ cookieStrategy' = yd.strategy
                /\ client' = NewClient(environ, Proxy)
                /\ userAgent' \in UserAgents
                /\ mu' = NoOne
                /\ jar' = NoCookie
    /\ UNCHANGED <<cacheDir, cacheFile, saved, cfgVars, reqVars, dlVars, batch>>

ValidPeriods == {"1d", "5d", "1mo", "3mo", "6mo", "1y", "2y", "5y", "10y", "ytd", "max"}

ValidIntervals ==
    {"1m", "2m", "5m", "15m", "30m", "60m", "90m", "1h", "1d", "5d", "1wk", "1mo", "3mo"}

\* A *time.Time: nil, or a pointer to the time whose Unix time is t.
NilTime == << >>
TimeAt(t) == <<t>>
Unix(p) == p[1]
MaxUnix == 12
TimeInputs == {NilTime, TimeAt(0 - 1), TimeAt(MaxUnix)}

\* Period and Interval strings: empty, valid for both, valid for one only,
\* valid for neither.
PeriodInputs == {"", "1mo", "1y", "1h", "invalid"}
IntervalInputs == {"", "1d", "1h", "1y", "invalid"}

HistoryOptionsInputs ==
    [Period : PeriodInputs, Interval : IntervalInputs, Start : TimeInputs,
     End : TimeInputs, PrePost : BOOLEAN, ShowErrors : BOOLEAN]

DefaultHistoryOptions ==
    [Period |-> "1mo", Interval |-> "1d", Start |-> NilTime, End |-> NilTime,
     PrePost |-> FALSE, ShowErrors |-> FALSE]

ErrInvalidPeriod == "invalid period"
ErrInvalidInterval == "invalid interval"

\* HistoryOptions.Validate without its test of the interval.
Validate_PeriodOnly(o) ==
    IF o.Period # "" /\ o.Period \notin ValidPeriods THEN ErrInvalidPeriod
    ELSE "nil"

\* HistoryOptions.Validate
Validate(o) ==
    IF o.Period # "" /\ o.Period \notin ValidPeriods THEN ErrInvalidPeriod
    ELSE IF o.Interval # "" /\ o.Interval \notin ValidIntervals THEN ErrInvalidInterval
    ELSE "nil"

\* fmt.Sprintf("%d", n): the decimal digits, after a minus sign if n < 0.
RECURSIVE Digits(_)
Digits(n) == IF n < 10 THEN <<n>> ELSE Digits(n \div 10) \o <<n % 10>>

FormatInt(n) == IF n < 0 THEN <<"-">> \o Digits(0 - n) ELSE Digits(n)

\* HistoryOptions.ToParams that always emits the range of a Period.
ToParams_RangeWithStart(o) ==
    LET keys == (IF o.Period # "" THEN {"range"} ELSE {})
                \cup (IF o.Interval # "" THEN {"interval"} ELSE {})
                \cup (IF o.Start # NilTime THEN {"period1"} ELSE {})
                \cup (IF o.End # NilTime THEN {"period2"} ELSE {})
                \cup (IF o.PrePost THEN {"includePrePost"} ELSE {})
                \cup (IF o.ShowErrors THEN {"events"} ELSE {})
    IN  [k \in keys |->
            CASE k = "range" -> <<o.Period>>
              [] k = "interval" -> <<o.Interval>>
              [] k = "period1" -> FormatInt(Unix(o.Start))
              [] k = "period2" -> FormatInt(Unix(o.End))
              [] k = "includePrePost" -> <<"true">>
              [] k = "events" -> <<"div,split">>]

\* HistoryOptions.ToParams: the map of URL parameters.
ToParams(o) ==
    LET keys == (IF o.Period # "" /\ o.Start = NilTime THEN {"range"} ELSE {})
                \cup (IF o.Interval # "" THEN {"interval"} ELSE {})
                \cup (IF o.Start # NilTime THEN {"period1"} ELSE {})
                \cup (IF o.End # NilTime THEN {"period2"} ELSE {})
                \cup (IF o.PrePost THEN {"includePrePost"} ELSE {})
                \cup (IF o.ShowErrors THEN {"events"} ELSE {})
    IN  [k \in keys |->
            CASE k = "range" -> <<o.Period>>
              [] k = "interval" -> <<o.Interval>>
              [] k = "period1" -> FormatInt(Unix(o.Start))
              [] k = "period2" -> FormatInt(Unix(o.End))
              [] k = "includePrePost" -> <<"true">>
              [] k = "events" -> <<"div,split">>]

\* The caller calls options.Validate().
CallValidate(o) ==
    /\ Alive
    /\ pc[1] = "idle"
    /\ api' = [op |-> "Validate", args |-> <<o>>, ret |-> << >>, err |-> Validate(o)]
    /\ UNCHANGED <<cfgVars, ydVars, reqVars, dlVars, batch>>

\* The caller calls options.ToParams().
CallToParams(o) ==
    /\ Alive
    /\ pc[1] = "idle"
    /\ api' = [op |-> "ToParams", args |-> <<o>>, ret |-> ToParams(o), err |-> "nil"]
    /\ UNCHANGED <<cfgVars, ydVars, reqVars, dlVars, batch>>

\* Options that differ from the default ones in Period and Interval.
ValidateInputs ==
    {[DefaultHistoryOptions EXCEPT !.Period = p, !.Interval = i] :
        p \in PeriodInputs, i \in IntervalInputs}

\* The options the caller passes to History: nil, or options of its own.
NilOptions == [nil |-> TRUE]
HistoryInputs ==
    {NilOptions}
    \cup {[o EXCEPT !.Start = t] : o \in ValidateInputs, t \in {NilTime, TimeAt(MaxUnix)}}

\* The caller calls t.History(ctx, options) on a ticker that has no timezone
\* yet: an error of Validate and nothing else, or the timezone request and
\* then the chart request with the parameters of the options.
History(w, options) ==
    /\ Alive
    /\ pc[w] = "idle"
    /\ dl = "none"
    /\ LET o == IF options = NilOptions THEN DefaultHistoryOptions ELSE options
       IN  IF Validate(o) # "nil"
           THEN /\ api' = [op |-> "History", args |-> <<o>>, ret |-> << >>,
                           err |-> Validate(o)]
                /\ UNCHANGED <<pc, task, resp, err, out>>
           ELSE /\ api' = [op |-> "History", args |-> <<o>>, ret |-> ToParams(o),
                           err |-> "pending"]
                /\ pc' = [pc EXCEPT ![w] = "makeRequest"]
                /\ task' = [task EXCEPT ![w] = "tz"]
                /\ resp' = [resp EXCEPT ![w] = NilResp]
                /\ err' = [err EXCEPT ![w] = "nil"]
                /\ out' = [out EXCEPT ![w] = "none"]
    /\ UNCHANGED <<attempt, retries, lastErr, reqCrumb, seen>>
    /\ UNCHANGED <<cfgVars, ydVars, dlVars, batch>>

\* History returns to the caller after its chart request, and the locals of
\* the calls it made are gone.
HistoryReturn(w) ==
    /\ Alive
    /\ pc[w] = "record"
    /\ dl = "none"
    /\ api' = [api EXCEPT !.err = HistoryErr(w)]
    /\ pc' = [pc EXCEPT ![w] = "idle"]
    /\ task' = [task EXCEPT ![w] = "direct"]
    /\ attempt' = [attempt EXCEPT ![w] = 0]
    /\ retries' = [retries EXCEPT ![w] = 0]
    /\ lastErr' = [lastErr EXCEPT ![w] = "nil"]
    /\ reqCrumb' = [reqCrumb EXCEPT ![w] = << >>]
    /\ resp' = [resp EXCEPT ![w] = NilResp]
    /\ err' = [err EXCEPT ![w] = "nil"]
    /\ out' = [out EXCEPT ![w] = "none"]
    /\ seen' = [seen EXCEPT ![w] = NoneSeen]
    /\ UNCHANGED <<cfgVars, ydVars, dlVars, batch>>

\* The answers of the servers to a caller of the ticker API.
TickerTransport ==
    [api |-> {r \in Responses : r.body \in {"chart", "malformed"} /\ r.status # 403},
     crumbs |-> {<<"x">>}, fail |-> TRUE]

InitTicker ==
    /\ Retries = 1
    /\ ctxDone = FALSE
    /\ InitConfig
    /\ now = 0
    /\ net = TickerTransport
    /\ InitSessionWith({FALSE}, {NoFile})
    /\ InitRequests("idle")
    /\ InitNoDownload

\* One caller constructing tickers and turning options into parameters.
NextTicker ==
    \/ \E symbol \in SymbolInputs, micCode \in MICInputs : NewTickerWithMIC(symbol, micCode)
    \/ \E o \in HistoryOptionsInputs : CallToParams(o)

SpecTicker == InitTicker /\ [][NextTicker]_vars

\* One caller validating options and fetching histories.
NextHistory ==
    \/ \E o \in ValidateInputs : CallValidate(o)
    \/ \E options \in HistoryInputs : History(1, options)
    \/ Request(1)
    \/ HistoryReturn(1)

SpecHistory == InitTicker /\ [][NextHistory]_vars

\* ------------------------------------------------------------ C22
\* The MIC code as NewTickerWithMIC looks it up: without one leading dot,
\* in upper case.
CleanedMIC(micCode) ==
    ToUpper(IF Len(micCode) > 0 /\ micCode[1] = Dot THEN Tail(micCode) ELSE micCode)

\* C22, as stated: NewTickerWithMIC returns an error and no ticker for every
\* MIC code that is not a key of the MIC-to-suffix table; for a key it yields
\* the upper-cased symbol followed by "." and the mapped suffix, or the bare
\* upper-cased symbol when the mapped suffix is empty.
C22_UnlistedMICIsError ==
    api.op = "NewTickerWithMIC" =>
        LET symbol == api.args[1]
            micCode == api.args[2]
        IN  IF micCode \notin DOMAIN MICToYahooSuffix
            THEN api.err # "nil" /\ api.ret = << >>
            ELSE /\ api.err = "nil"
                 /\ api.ret = IF MICToYahooSuffix[micCode] # << >>
                              THEN ToUpper(symbol) \o <<Dot>> \o MICToYahooSuffix[micCode]
                              ELSE ToUpper(symbol)

\* C22, amended: NewTickerWithMIC returns an error and no ticker for every
\* MIC code that, without one leading dot and in upper case, is not a key of
\* the MIC-to-suffix table; otherwise it yields the trimmed, upper-cased
\* symbol followed by "." and the mapped suffix, or that symbol alone when
\* the mapped suffix is empty.
C22_UncleanableMICIsError ==
    api.op = "NewTickerWithMIC" =>
        LET symbol == ToUpper(TrimSpace(api.args[1]))
            micCode == CleanedMIC(api.args[2])
        IN  IF micCode \notin DOMAIN MICToYahooSuffix
            THEN api.err # "nil" /\ api.ret = << >>
            ELSE /\ api.err = "nil"
                 /\ api.ret = IF MICToYahooSuffix[micCode] # << >>
                              THEN symbol \o <<Dot>> \o MICToYahooSuffix[micCode]
                              ELSE symbol

\* A ticker made from a padded symbol and a dotted lower-case MIC code.
C22_Witness ==
    /\ api.op = "NewTickerWithMIC"
    /\ api.args = <<(<<Space, "a">>), (<<Dot, "x", "p", "a", "r">>)>>
    /\ api.err = "nil"
    /\ api.ret = <<"A", Dot, "P", "A">>

\* ------------------------------------------------------------ C23
\* The options Validate has to reject.
Rejectable(o) ==
    \/ o.Period # "" /\ o.Period \notin ValidPeriods
    \/ o.Interval # "" /\ o.Interval \notin ValidIntervals

\* C23: HistoryOptions.Validate returns an error if and only if Period is
\* non-empty and not one of ValidPeriods, or Interval is non-empty and not one
\* of ValidIntervals; a history fetch with options that fail validation
\* returns that error and performs no request: the caller is not in a
\* request afterwards, and the session and the request state are untouched.
C23_InvalidOptionsFetchNothing ==
    [][/\ \A o \in ValidateInputs :
             CallValidate(o) => (api'.err # "nil" <=> Rejectable(o))
       /\ \A options \in HistoryInputs :
             LET o == IF options = NilOptions THEN DefaultHistoryOptions ELSE options
             IN  History(1, options) /\ Rejectable(o) =>
                    /\ api'.err \in {ErrInvalidPeriod, ErrInvalidInterval}
                    /\ pc'[1] = "idle"
                    /\ UNCHANGED <<ydVars, reqVars>>]_vars

\* A history fetch with a valid period and an interval that is a valid
\* period only has returned the error of Validate.
C23_Witness ==
    /\ api.op = "History"
    /\ api.args[1].Period = "1mo"
    /\ api.args[1].Interval = "1y"
    /\ api.err = ErrInvalidInterval
    /\ pc[1] = "idle"

\* ------------------------------------------------------------ C24
\* C24: HistoryOptions.ToParams emits the "range" parameter if and only if
\* Period is non-empty and Start is unset; when Start is set, "period1" is
\* emitted and "range" is not, and "period2" is emitted if and only if End
\* is set.
C24_RangeOnlyWithoutStart ==
    api.op = "ToParams" =>
        LET o == api.args[1]
            emitted == DOMAIN api.ret
        IN  /\ "range" \in emitted <=> (o.Period # "" /\ o.Start = NilTime)
            /\ o.Start # NilTime => "period1" \in emitted /\ "range" \notin emitted
            /\ "period2" \in emitted <=> o.End # NilTime

\* Options with a period, a start before 1970 and no end gave "period1", in
\* decimal digits after a minus sign, and neither "range" nor "period2".
C24_Witness ==
    /\ api.op = "ToParams"
    /\ api.args[1].Period = "1y"
    /\ api.args[1].Start = TimeAt(0 - 1)
    /\ api.args[1].End = NilTime
    /\ "period1" \in DOMAIN api.ret
    /\ api.ret["period1"] = <<"-", 1>>
    /\ {"range", "period2"} \cap DOMAIN api.ret = {}

\* ------------------------------------------------------------ C25
\* The goroutines with a network call in progress: a cookie or crumb request
\* of an acquisition, or the API request.
InNetworkCall == {w \in Workers : pc[w] \in AcqPcs \cup {"clientDo"}}

\* The goroutines at a yd.mu.Lock() that does not return.
BlockedOnLock ==
    {w \in Workers :
        /\ pc[w] \in {"doRequest", "headers", "switchCookieStrategy", "acceptConsent",
                      "ResetCrumb"}
        /\ ~MuFree(w)}

\* C25: the session lock is never held while a network call is in progress,
\* neither the API request nor the cookie and crumb requests of an
\* acquisition; so no goroutine waits for the lock while another one's
\* network call is pending.
C25_LockFreeDuringNetworkCalls ==
    /\ \A w \in InNetworkCall : mu # w
    /\ InNetworkCall # {} => BlockedOnLock = {}

\* The API request of a goroutine is in progress only with the lock not held
\* by that goroutine.
ApiRequestSentUnlocked == \A w \in Workers : pc[w] = "clientDo" => mu # w

\* ------------------------------------------------------------ C26
\* A user agent of the caller's own.
CustomAgents == {"custom agent"}

\* SetUserAgent writing the field without the lock.
SetUserAgent_Unlocked(ua) ==
    /\ Alive
    /\ userAgent' = ua
    /\ UNCHANGED <<crumb, cookie, cookieStrategy, mu, jar, cacheDir, client, cacheFile, saved>>
    /\ UNCHANGED <<cfgVars, reqVars, dlVars, batch, api>>

\* The caller calls SetUserAgent: the field is written between Lock and
\* Unlock.
SetUserAgent(ua) ==
    /\ Alive
    /\ mu = NoOne
    /\ userAgent' = ua
    /\ UNCHANGED <<crumb, cookie, cookieStrategy, mu, jar, cacheDir, client, cacheFile, saved>>
    /\ UNCHANGED <<cfgVars, reqVars, dlVars, batch, api>>

\* Several goroutines share one session whose user agent the caller sets.
NextLock ==
    \/ \E w \in Workers : GetRawJSON(w) \/ Request(w)
    \/ \E ua \in CustomAgents \cup UserAgents : SetUserAgent(ua)

SpecLock == InitConc /\ [][NextLock]_vars

\* The step is taken with the lock: w holds it, or takes and releases it
\* within the step.
WithLock(w) == mu = w \/ mu = NoOne

\* C26: every write to crumb, cookie, strategy and user agent after the
\* construction of the session is made with the lock held, and so is every
\* read of them by a request (the crumb copied for the request, the user
\* agent copied for its headers); the API request is sent with the lock
\* released.
C26_SharedFieldsUnderLock ==
    [][/\ \A w \in Workers :
             /\ pc'[w] # pc[w] /\ <<crumb, cookie, cookieStrategy>>' # <<crumb, cookie, cookieStrategy>>
                   => WithLock(w)
             /\ reqCrumb'[w] # reqCrumb[w] => WithLock(w)
             /\ pc[w] \in {"doRequest", "headers"} /\ pc'[w] # pc[w] => WithLock(w)
             /\ pc'[w] = "clientDo" => mu' # w
       /\ userAgent' # userAgent => mu = NoOne]_vars

\* The caller has set the user agent, one goroutine holds the lock in an
\* acquisition, and another, answered 429, waits to switch the strategy.
C26_Witness ==
    /\ userAgent \in CustomAgents
    /\ \E w, v \in Workers :
          /\ mu = w
          /\ pc[w] \in AcqPcs
          /\ pc[v] = "switchCookieStrategy"

\* ------------------------------------------------------------ C27
\* C27: a response from a consent host is not counted as an attempt: when
\* the request is dispatched again its attempt counter and its remaining
\* retry budget are what they were before the redirect was seen, the
\* credentials are cleared, the strategy is csrf, and there is no backoff.
C27_ConsentNotCounted ==
    [][acceptConsent(1) =>
          /\ pc'[1] = "doRequest"
          /\ attempt'[1] = attempt[1]
          /\ retries'[1] - attempt'[1] = retries[1] - attempt[1]
          /\ crumb' = << >> /\ cookie' = NoCookie
          /\ cookieStrategy' = "csrf"]_vars

\* Handling a consent redirect clears the credentials and forces csrf, and
\* the request goes on, or ends, without a backoff sleep.
ConsentClearsAndForcesCsrf ==
    [][acceptConsent(1) =>
          /\ pc'[1] # "sleep"
          /\ crumb' = << >> /\ cookie' = NoCookie
          /\ cookieStrategy' = "csrf"]_vars

\* ------------------------------------------------------------ C28
\* C28: a 429 response is retryable, and before the next attempt its
\* handling toggles the strategy to the other one and clears cookie and crumb
\* in one step under the session lock: the 429 leads to switchCookieStrategy
\* and nowhere else; that step takes the free lock, toggles, clears, and
\* then backs off for a retry if the budget allows and returns the rate-limit
\* error if not; and a request enters an attempt only with as many switches
\* made as 429 responses seen.
C28_RateLimitTogglesAndClears ==
    [][\A w \in Workers :
          /\ \A r \in Responses :
                clientDoResponse(w, r) /\ r.status = 429 =>
                    /\ pc'[w] = "switchCookieStrategy"
                    /\ lastErr'[w] = ErrRateLimit
          /\ switchCookieStrategy(w) =>
                /\ mu = NoOne /\ mu' = NoOne
                /\ cookieStrategy = "basic" => cookieStrategy' = "csrf"
                /\ cookieStrategy = "csrf" => cookieStrategy' = "basic"
                /\ crumb' = << >> /\ cookie' = NoCookie
                /\ IF attempt[w] < retries[w]
                   THEN pc'[w] = "sleep" /\ attempt'[w] = attempt[w]
                   ELSE err'[w] = ErrRateLimit /\ out'[w] = ErrRateLimit
          /\ pc'[w] = "doRequest" => seen'[w].switches = seen'[w].s429]_vars

\* A goroutine answered 429 on a session using basic has switched it to csrf
\* and backs off before its next attempt.
C28_Witness ==
    \E w \in Workers :
        /\ pc[w] = "sleep"
        /\ seen[w].s429 = 1 /\ seen[w].switches = 1 /\ seen[w].last = 429
        /\ cookieStrategy = "csrf"
        /\ crumb = << >> /\ cookie = NoCookie

StrategyAt(p) == IF p \in {"basicCookie", "basicCrumb", "basicCookieFb", "basicCrumbFb"}
                 THEN "basic" ELSE "csrf"
InFallback(p) == p \in {"basicCookieFb", "basicCrumbFb", "csrfCookieFb", "csrfCrumbFb"}

\* w's acquisition ends in this step, with a crumb or with an error.
AcqEnds(w) == pc[w] \in AcqPcs /\ pc'[w] = "headers"

\* An acquisition starts with the recorded strategy, falls back to the other
\* one at most once, and after a success the recorded strategy is the one
\* that succeeded.
AcquisitionFallsBackOnce ==
    [][\A w \in Workers :
          /\ pc[w] = "doRequest" /\ pc'[w] \in AcqPcs =>
                ~InFallback(pc'[w]) /\ StrategyAt(pc'[w]) = cookieStrategy
          /\ pc[w] \in AcqPcs /\ pc'[w] \in AcqPcs /\ StrategyAt(pc'[w]) # StrategyAt(pc[w]) =>
                ~InFallback(pc[w]) /\ InFallback(pc'[w])
          /\ pc[w] \in AcqPcs /\ InFallback(pc[w]) /\ pc'[w] \in AcqPcs => InFallback(pc'[w])
          /\ AcqEnds(w) /\ reqCrumb'[w] # << >> =>
                cookieStrategy' = StrategyAt(pc[w]) /\ crumb' = reqCrumb'[w]]_vars

\* C30: an acquisition tries the recorded strategy first and falls back to
\* the other one once before returning an error, and the recorded strategy
\* names the strategy that last succeeded: after a success it is the one that
\* succeeded, and after an acquisition in which both strategies failed it is
\* what it was before, the strategy tried first and not the fallback.
C30_StrategyNamesLastSuccess ==
    [][\A w \in Workers :
          /\ pc[w] = "doRequest" /\ pc'[w] \in AcqPcs =>
                ~InFallback(pc'[w]) /\ StrategyAt(pc'[w]) = cookieStrategy
          /\ AcqEnds(w) /\ reqCrumb'[w] # << >> => cookieStrategy' = StrategyAt(pc[w])
          /\ AcqEnds(w) /\ reqCrumb'[w] = << >> /\ InFallback(pc[w]) =>
                cookieStrategy' = OtherStrategy(StrategyAt(pc[w]))]_vars

\* ------------------------------------------------------------ C31
\* The getcrumb endpoints answer every request with 429; every other server
\* answers, with anything.
CrumbLimitTransport == [api |-> Responses, crumbs |-> {RateLimitAnswer}, fail |-> FALSE]

InitCrumbLimit ==
    /\ Retries = 1
    /\ ctxDone = FALSE
    /\ InitConfig
    /\ now = 0
    /\ net = CrumbLimitTransport
    /\ InitSessionWith({FALSE}, {NoFile})
    /\ InitRequests("idle")
    /\ InitNoDownload

\* One caller issuing requests while the getcrumb endpoints are rate limited.
NextCrumbLimit ==
    \/ GetRawJSON(1)
    \/ Request(1)
    \/ Cancel

SpecCrumbLimit == InitCrumbLimit /\ [][NextCrumbLimit]_vars

\* The step is the return of a getcrumb request of w.
CrumbStep(w) ==
    \E fb \in BOOLEAN : getCrumbBasicInternal(w, fb) \/ getCrumbCSRFInternal(w, fb)

\* C31: a 429 from the crumb endpoint during an acquisition reaches the
\* request's retry loop as a rate-limit outcome that is retryable: the
\* acquisition ends there, the loop records the rate-limit error, and the
\* request backs off for a retry or, its budget used up, returns that error;
\* it is not handled as a generic failure (a fallback to the other strategy)
\* nor dropped (the request sent without a crumb).
C31_CrumbRateLimitPropagates ==
    [][~ctxDone /\ CrumbStep(1) =>
          /\ pc'[1] \notin AcqPcs \cup {"headers", "clientDo"}
          /\ lastErr'[1] = ErrRateLimit
          /\ IF attempt[1] < retries[1] THEN pc'[1] = "sleep"
             ELSE err'[1] = ErrRateLimit]_vars

\* ------------------------------------------------------------ C32
\* C32: the basic strategy fails, and stores no crumb, whenever its cookie
\* step finds no A3 cookie in the response nor in the jar, or its crumb step
\* gets no usable crumb; it never succeeds leaving the session with a crumb
\* and an empty cookie.
C32_BasicNeedsCookieAndCrumb ==
    [][\A fb \in BOOLEAN :
          /\ getCookieBasicInternal(1, fb) /\ jar' = NoCookie =>
                pc'[1] # Step("basicCrumb", fb) /\ crumb' = << >>
          /\ getCrumbBasicInternal(1, fb) /\ pc'[1] = "headers" /\ reqCrumb'[1] # << >> =>
                cookie' # NoCookie]_vars

\* The crumb step of the basic strategy stores a crumb only if the body it
\* got passes its own test and isValidCrumb, and fails otherwise.
BasicFailsWithoutCrumb ==
    [][\A fb \in BOOLEAN :
          getCrumbBasicInternal(1, fb) =>
              IF crumb' # crumb
              THEN /\ crumb' \in net.crumbs
                   /\ ~CrumbBodyRejected(crumb') /\ isValidCrumb(crumb')
                   /\ reqCrumb'[1] = crumb'
              ELSE reqCrumb'[1] = << >> \/ pc'[1] \in AcqPcs]_vars

\* ------------------------------------------------------------ C33
\* C33: every API request that is sent carries the session's current crumb,
\* and none is sent when no credentials could be acquired.
C33_RequestCarriesCrumb ==
    pc[1] = "clientDo" => reqCrumb[1] # << >> /\ reqCrumb[1] = crumb

\* A request that carries a crumb carries the one the session holds.
CrumbSentIsSessionCrumb ==
    pc[1] = "clientDo" /\ reqCrumb[1] # << >> => reqCrumb[1] = crumb

\* ------------------------------------------------- the backoff wait
\* An int64 is four digits of base 2^16, the lowest first, in two's
\* complement; arithmetic on it wraps as Go's does.
Limb == 2^16
Int64(n) == <<n % Limb, (n \div Limb) % Limb, 0, 0>>
MinInt64 == <<0, 0, 0, Limb \div 2>>
MaxInt64 == <<Limb - 1, Limb - 1, Limb - 1, (Limb \div 2) - 1>>

\* x * c in int64, for a small c >= 0.
Mul64(x, c) ==
    LET p1 == x[1] * c
        p2 == x[2] * c + (p1 \div Limb)
        p3 == x[3] * c + (p2 \div Limb)
        p4 == x[4] * c + (p3 \div Limb)
    IN  <<p1 % Limb, p2 % Limb, p3 % Limb, p4 % Limb>>

Negative64(x) == x[4] >= Limb \div 2

\* x > y for int64 values.
Greater64(x, y) ==
    IF Negative64(x) # Negative64(y) THEN Negative64(y)
    ELSE \E i \in 1..4 : x[i] > y[i] /\ \A j \in (i + 1)..4 : x[j] = y[j]

\* x * time.Second: time.Second is 10^9 nanoseconds.
TimesSecond(x) == Mul64(Mul64(Mul64(x, 1000), 1000), 1000)

MaxBackoffSeconds == 30

\* math.Pow(2, float64(attempt)), exact in a float64, as 2^k for the k
\* that fit an int64.
Pow2(k) == [i \in 1..4 |-> IF i = (k \div 16) + 1 THEN 2^(k % 16) ELSE 0]

\* time.Duration(f) for f = 2^k: the value if it fits, and else what the
\* platform's conversion instruction gives (the smallest int64 on amd64, the
\* largest on arm64).
DurationOfPow2(k) == IF k <= 62 THEN {Pow2(k)} ELSE {MinInt64, MaxInt64}

\* if backoff > 30*time.Second { backoff = 30 * time.Second }
Capped(d) ==
    IF Greater64(d, TimesSecond(Int64(MaxBackoffSeconds))) THEN TimesSecond(Int64(MaxBackoffSeconds))
    ELSE d

\* time.Sleep(d) waits for d, and not at all if d <= 0.
SleepTime(d) == IF Negative64(d) THEN Int64(0) ELSE d

\* The largest attempt number whose backoff is computed.
MaxAttempt == 100

\* makeRequest, after the failure of attempt k with retries left: the
\* backoff it computes and the time it then sleeps.
BackoffSleep(k) ==
    /\ Alive
    /\ \E d \in DurationOfPow2(k) :
          LET backoff == Capped(TimesSecond(d))
          IN  api' = [op |-> "backoff", args |-> <<k>>,
                      ret |-> [backoff |-> backoff, wait |-> SleepTime(backoff)],
                      err |-> "nil"]
    /\ UNCHANGED <<cfgVars, ydVars, reqVars, dlVars, batch>>

\* The waits of a request over all attempt numbers.
NextBackoff == \E k \in 0..MaxAttempt : BackoffSleep(k)

SpecBackoff == InitTicker /\ [][NextBackoff]_vars

\* ------------------------------------------------------------ C34
\* min(2^k, 30) seconds, as a duration.
CappedExponential(k) ==
    TimesSecond(Int64(IF k >= 5 THEN MaxBackoffSeconds ELSE 2^k))

\* C34: the wait before the retry that follows attempt k is min(2^k, 30)
\* seconds, for every k, and no wait exceeds 30 seconds.
C34_BackoffIsCappedExponential ==
    api.op = "backoff" =>
        /\ api.ret.wait = CappedExponential(api.args[1])
        /\ ~Greater64(api.ret.wait, TimesSecond(Int64(MaxBackoffSeconds)))

\* The wait is min(2^k, 30) seconds as long as 2^k seconds fit an int64 of
\* nanoseconds, and beyond that it is 30 seconds or nothing.
BackoffUpToOverflow ==
    api.op = "backoff" =>
        /\ api.args[1] <= 33 => api.ret.wait = CappedExponential(api.args[1])
        /\ api.args[1] > 33 =>
              api.ret.wait \in {Int64(0), TimesSecond(Int64(MaxBackoffSeconds))}

\* ------------------------------------------------------------ C35
\* C35: in every reachable state the session's crumb is empty or passes
\* isValidCrumb, and so is the crumb every request holds for its URL: no
\* HTML error page and no rate-limit message is stored or attached.
C35_CrumbEmptyOrValid ==
    /\ crumb = << >> \/ isValidCrumb(crumb)
    /\ ~Contains(crumb, Html) /\ ~Contains(crumb, TooMany)
    /\ \A w \in Workers :
          /\ reqCrumb[w] = << >> \/ isValidCrumb(reqCrumb[w])
          /\ ~Contains(reqCrumb[w], Html) /\ ~Contains(reqCrumb[w], TooMany)

\* The cache file holds a record with an HTML page as crumb, and a request of
\* the session constructed from it goes out without a crumb after an
\* acquisition that got an HTML page too.
C35_Witness ==
    /\ cacheDir /\ cacheFile.present /\ cacheFile.readable /\ cacheFile.parses
    /\ Contains(jsonUnmarshalString(cacheFile.crumb), Html)
    /\ now <= cacheFile.expiry
    /\ crumb = << >>
    /\ pc[1] = "clientDo" /\ reqCrumb[1] = << >>

\* ------------------------------------------------------------ C36
\* Records whose strategy is neither "basic" nor "csrf": left by another
\* program or version, or edited.
ForeignFiles ==
    {CookieCacheRecord(A3Value, <<"x">>, strat, TickHours) : strat \in {"", "Basic", "none"}}

InitForeign ==
    /\ Retries = 1
    /\ ctxDone = FALSE
    /\ InitConfig
    /\ now = 0
    /\ net = ConfigTransport
    /\ InitSessionWith({TRUE}, ForeignFiles)
    /\ InitRequests("idle")
    /\ InitNoDownload

\* Sessions constructed over time where the cache file held such a record.
SpecForeign == InitForeign /\ [][NextCache]_vars

\* C36: in every reachable state the session's strategy is basic or csrf,
\* also after the credentials were restored from a cache file, whatever
\* strategy its record holds.
C36_StrategyIsBasicOrCsrf == cookieStrategy \in {"basic", "csrf"}

\* Every step of a session whose strategy is basic or csrf leaves it so,
\* unless the step constructs a session from the cache file.
StrategyKeptBasicOrCsrf ==
    [][(cookieStrategy \in {"basic", "csrf"} /\ ~NewTicker) =>
          (cookieStrategy' \in {"basic", "csrf"})]_vars

\* ------------------------------------------------------------ C37
\* Servers that reject or rate-limit some requests, and getcrumb endpoints
\* that hand out a different crumb at each acquisition.
StaleTransport ==
    [api |-> {r \in Responses : (r.status = 200 /\ (r.body = "chart" \/ r.consent))
                                    \/ (r.status \in {401, 429} /\ ~r.consent)},
     crumbs |-> {<<"x">>, <<BadByte>>}, fail |-> TRUE]

InitStale ==
    /\ Retries = 1
    /\ ctxDone = FALSE
    /\ InitConfig
    /\ now = 0
    /\ net = StaleTransport
    /\ InitSessionWith({FALSE}, {NoFile})
    /\ InitRequests("idle")
    /\ InitNoDownload

\* Several goroutines share one session on such servers.
SpecStale == InitStale /\ [][NextConc]_vars

\* C37: the invalidation after a 401/403/429 clears only the credentials the
\* failing request was sent with: when the session's crumb is no longer the
\* one the request carried (another goroutine has invalidated or replaced it
\* since the dispatch), handling the answer leaves the crumb, the cookie and
\* the strategy as they are; so a later crumb is never wiped, and a second
\* 429 for the same credentials does not toggle the strategy back.
C37_InvalidationOnlyOfOwnCredentials ==
    [][\A w \in Workers :
          (ResetCrumb(w) \/ switchCookieStrategy(w)) /\ crumb # reqCrumb[w] =>
              UNCHANGED <<crumb, cookie, cookieStrategy>>]_vars

\* ------------------------------------------------------------ C38
\* What the servers of a run may do, each leading requests through some of
\* the functions that take the session lock: answers that invalidate the
\* credentials, consent pages, or a network on which any call may fail.
LockTransports ==
    {[api |-> {r \in Responses : (r.status = 200 /\ r.body = "chart")
                                     \/ (r.status \in {401, 429} /\ ~r.consent)},
      crumbs |-> {<<"x">>}, fail |-> FALSE],
     [api |-> {r \in Responses : (r.status = 200 /\ (r.body = "chart" \/ r.consent))
                                     \/ r.status = 401},
      crumbs |-> {<<"x">>}, fail |-> FALSE],
     [api |-> {r \in Responses : r.status = 200 /\ r.body = "chart"},
      crumbs |-> {<<"x">>}, fail |-> TRUE]}

InitLockers ==
    /\ Retries = 1
    /\ ctxDone = FALSE
    /\ InitConfig
    /\ now = 0
    /\ net \in LockTransports
    /\ InitSessionWith({FALSE}, {NoFile})
    /\ InitRequests("idle")
    /\ InitNoDownload

\* The goroutines share the session; every network call returns, the
\* scheduler runs every goroutine that can take a step, and sync.Mutex hands
\* the lock to a goroutine that keeps waiting for it (its starvation mode).
FairSpecLock ==
    /\ InitLockers
    /\ [][NextLock]_vars
    /\ \A w \in Workers : SF_vars(Request(w))

\* The positions at which a goroutine calls yd.mu.Lock().
LockCalls == {"doRequest", "headers", "switchCookieStrategy", "acceptConsent", "ResetCrumb"}

\* C38: no deadlock on the session lock. The goroutine holding the lock is
\* never at a call of Lock (no path takes the lock while holding it); every
\* acquisition of the lock is followed by its release, the network calls
\* made under it returning; and no goroutine stays at calls of Lock for ever
\* (from one it reaches a network call, a sleep or its return within three
\* steps of its own), as long as the process runs: a panic of one goroutine
\* ends them all.
C38_NoDeadlockOnLock ==
    /\ [](\A w \in Workers : mu = w => pc[w] \notin LockCalls)
    /\ \A w \in Workers : []<>(mu # w)
    /\ \A w \in Workers : []<>(pc[w] \notin LockCalls \/ ~Alive)

\* A goroutine is at a call of Lock while another one holds the lock inside
\* an acquisition.
C38_Witness ==
    \E w, v \in Workers :
        /\ w # v
        /\ pc[w] \in LockCalls
        /\ mu = v
        /\ pc[v] \in AcqPcs

\* ------------------------------------------------------------ C39
\* The goroutines inside t.History for the symbol they received.
FetchingSymbol == {w \in Workers : ticker[w] # << >> /\ pc[w] \in Fetching}

\* C39: during Download the number of symbols being fetched at the same time
\* never exceeds the number of goroutines started, which is at least 1 when
\* there is a distinct symbol, at most options.Threads when that is positive,
\* and at most the number of distinct symbols.
C39_FetchesBoundedByPool ==
    dl # "none" =>
        /\ Cardinality(FetchingSymbol) <= workers
        /\ Cardinality(Started) = workers
        /\ wanted.symbols # {} => workers >= 1
        /\ batch.threads > 0 => workers <= batch.threads
        /\ workers <= Cardinality(wanted.symbols)

\* Every goroutine of a pool of several is fetching a symbol of its own.
C39_Witness ==
    /\ dl = "running"
    /\ workers > 1
    /\ Cardinality(FetchingSymbol) = workers
    /\ Cardinality({ticker[w] : w \in FetchingSymbol}) = workers

\* ------------------------------------------------------------ C40
\* Download is over: every goroutine found the closed queue drained and
\* exited, and Download returned.
DownloadOver ==
    /\ dl = "returned"
    /\ tickerChan = << >>
    /\ wg = 0
    /\ \A w \in Started : pc[w] = "exited"

\* The servers' behaviour during the Download: as above, or a network on
\* which any call may fail and the getcrumb endpoint cannot be reached.
BatchTransports ==
    DownloadTransports
    \cup {[api |-> {r \in Responses : r.status = 200 /\ ~r.consent /\ r.body = "chart"},
           crumbs |-> {}, fail |-> TRUE]}

InitBatch ==
    /\ Retries = 1
    /\ ctxDone = FALSE
    /\ InitConfig
    /\ now = 0
    /\ net \in BatchTransports
    /\ InitSessionWith({TRUE}, {NoFile})
    /\ InitRequests("unstarted")
    /\ InitNoDownload

\* The ticker lists that name each symbol once, as Download queues it.
BatchLists ==
    {list \in TickerLists(MaxTickers, MaxStrLen) : NormalizeTickers(<< >>, list) = list}

\* One call of Download whose context is never cancelled.
NextBatch ==
    \/ dl = "none" /\ \E list \in BatchLists, threads \in ThreadsValues :
                            Download(list, threads)
    \/ \E w \in Workers : Worker(w)
    \/ Return

\* The scheduler runs every goroutine that can take a step, and Download
\* itself once its wait is over; every network call returns.
FairSpecBatch ==
    /\ InitBatch
    /\ [][NextBatch]_vars
    /\ \A w \in Workers : WF_vars(Worker(w))
    /\ WF_vars(Return)

\* C40: Download terminates. No symbol is taken from the queue twice and only
\* queued symbols are taken; and, every single-symbol fetch returning (a
\* fetch that panics does not return, and ends the process), a running
\* Download leads to one in which every queued symbol was taken, every
\* goroutine found the queue drained and exited, and Download returned: no
\* goroutine stays at the queue or at the result mutex for ever.
C40_DownloadTerminates ==
    /\ [](/\ Cardinality(Range(batch.fetched)) = Len(batch.fetched)
          /\ dl # "none" => Range(batch.fetched) \subseteq Range(tickers))
    /\ (dl = "running") ~>
          (~Alive \/ (DownloadOver /\ Range(batch.fetched) = Range(tickers)))

\* Download has returned after several goroutines fetched its symbols.
C40_Witness ==
    /\ DownloadOver
    /\ workers > 1
    /\ Len(batch.fetched) = workers
    /\ Range(batch.fetched) = Range(tickers)

====
